---------------------------- MODULE Spec2Model ----------------------------
(***************************************************************************)
(* Model of the credit-scoring API of api/app.py: the POST /predict        *)
(* handler with its helpers (_to_float, _to_int, _clamp, _calc_mensualite, *)
(* _business_to_features, _predict_risk_score), the two GET routes, and    *)
(* the process-wide artifacts loaded once at start-up.                     *)
(*                                                                         *)
(* Python floats are modelled as exact rationals n/d (kind "fin") plus the *)
(* three non-finite values nan, +inf and -inf, with Python's behaviour of  *)
(* max, min and the comparisons on nan.  Two floats outside the rationals  *)
(* of the model are kept as kinds of their own: 1e-17 ("tiny": added to    *)
(* 1.0 it is rounded away) and 1e308 ("huge": its square overflows).       *)
(* JSON values are modelled with their type, so that the sanitizers        *)
(* convert rather than copy.                                               *)
(***************************************************************************)
EXTENDS Integers, Sequences, FiniteSets, TLC

(***************************************************************************)
(* Floats                                                                  *)
(***************************************************************************)
Abs(i) == IF i < 0 THEN -i ELSE i

RECURSIVE GCD(_, _)
GCD(a, b) == IF b = 0 THEN a ELSE GCD(b, a % b)

\* the rational n/d (d > 0) in lowest terms
Fin(n, d) ==
    LET g == GCD(Abs(n), d)
    IN  IF n = 0 THEN [k |-> "fin", n |-> 0, d |-> 1]
        ELSE [k |-> "fin", n |-> n \div g, d |-> d \div g]

I(n) == [k |-> "fin", n |-> n, d |-> 1]
NaN == [k |-> "nan", n |-> 0, d |-> 1]
PInf == [k |-> "inf", n |-> 1, d |-> 1]
NInf == [k |-> "inf", n |-> -1, d |-> 1]
\* 1e-17 and 1e308
Tiny == [k |-> "tiny", n |-> 1, d |-> 1]
Huge == [k |-> "huge", n |-> 1, d |-> 1]

IsFin(x) == x.k = "fin"
IsNaN(x) == x.k = "nan"
Sign(x) == IF x.n > 0 THEN 1 ELSE IF x.n < 0 THEN -1 ELSE 0

LCM(a, b) == (a \div GCD(a, b)) * b

\* where a float lies: -inf, a negative rational, 0, 1e-17, a positive
\* rational, 1e308, +inf
Level(x) ==
    CASE x.k = "inf" -> 4 * x.n
      [] x.k = "huge" -> 3
      [] x.k = "tiny" -> 1
      [] OTHER -> 2 * Sign(x)

\* x < y on floats; every comparison with nan is false
FLt(x, y) ==
    IF IsNaN(x) \/ IsNaN(y) THEN FALSE
    ELSE IF ~IsFin(x) \/ ~IsFin(y) THEN Level(x) < Level(y)
    ELSE LET l == LCM(x.d, y.d)
         IN  x.n * (l \div x.d) < y.n * (l \div y.d)

\* x == y on floats (a fraction need not be in lowest terms)
FEq(x, y) ==
    IF IsNaN(x) \/ IsNaN(y) THEN FALSE
    ELSE IF ~IsFin(x) \/ ~IsFin(y) THEN x = y
    ELSE LET l == LCM(x.d, y.d)
         IN  x.n * (l \div x.d) = y.n * (l \div y.d)
FLe(x, y) == FLt(x, y) \/ FEq(x, y)
FGt(x, y) == FLt(y, x)
FGe(x, y) == FLe(y, x)

FNeg(x) == IF IsNaN(x) THEN NaN ELSE [k |-> x.k, n |-> -x.n, d |-> x.d]

FAdd(x, y) ==
    IF IsNaN(x) \/ IsNaN(y) THEN NaN
    ELSE IF ~IsFin(x) /\ ~IsFin(y) THEN (IF x.n = y.n THEN x ELSE NaN)
    ELSE IF ~IsFin(x) THEN x
    ELSE IF ~IsFin(y) THEN y
    ELSE LET l == LCM(x.d, y.d)
         IN  Fin(x.n * (l \div x.d) + y.n * (l \div y.d), l)

FSub(x, y) == FAdd(x, FNeg(y))

FMul(x, y) ==
    IF IsNaN(x) \/ IsNaN(y) THEN NaN
    ELSE IF ~IsFin(x) \/ ~IsFin(y)
         THEN IF Sign(x) * Sign(y) = 0 THEN NaN
              ELSE IF Sign(x) * Sign(y) > 0 THEN PInf ELSE NInf
    ELSE IF x.n = 0 \/ y.n = 0 THEN I(0)
    ELSE LET g1 == GCD(Abs(x.n), y.d)
             g2 == GCD(Abs(y.n), x.d)
         IN  [k |-> "fin", n |-> (x.n \div g1) * (y.n \div g2),
              d |-> (x.d \div g2) * (y.d \div g1)]

\* x / y for a divisor that is not zero (the callers divide by max(revenu, 1.0),
\* by n >= 1, by 12.0 and by (1 + t)^n - 1 with t > 0); 1e-17 / 12.0 is still
\* rounded away when added to 1.0, and the square of 1e308 / 12.0 still overflows
FDiv(x, y) ==
    IF IsNaN(x) \/ IsNaN(y) THEN NaN
    ELSE IF x.k \in {"tiny", "huge"} THEN x
    ELSE IF ~IsFin(y) THEN (IF IsFin(x) THEN I(0) ELSE NaN)
    ELSE IF ~IsFin(x) THEN (IF Sign(x) * Sign(y) > 0 THEN PInf ELSE NInf)
    ELSE FMul(x, IF y.n > 0 THEN Fin(y.d, y.n) ELSE Fin(-y.d, -y.n))

RECURSIVE FPow(_, _)
FPow(x, n) == IF n = 0 THEN I(1) ELSE FMul(x, FPow(x, n - 1))

\* Python's max(a, b) and min(a, b): the first argument unless the second is
\* strictly greater (smaller), so a nan second argument is dropped
PyMax(a, b) == IF FGt(b, a) THEN b ELSE a
PyMin(a, b) == IF FLt(b, a) THEN b ELSE a


(***************************************************************************)
(* JSON values as the handler receives them from request.get_json          *)
(***************************************************************************)
\* A text is a sequence of tokens: " " is a whitespace character, any other
\* token is a run of non-whitespace characters.
JNum(x) == [t |-> "num", v |-> x, s |-> <<>>]
JStr(s) == [t |-> "str", v |-> I(0), s |-> s]
JBool(b) == [t |-> "bool", v |-> IF b THEN I(1) ELSE I(0), s |-> <<>>]
JNull == [t |-> "null", v |-> I(0), s |-> <<>>]
\* a non-empty JSON array or object used as a field value
JList == [t |-> "list", v |-> I(0), s |-> <<>>]
\* the key is absent from the object
Missing == [t |-> "missing", v |-> I(0), s |-> <<>>]

\* dict.get(key, default)
Get(data, key, default) == IF data[key].t = "missing" THEN default ELSE data[key]

\* str.strip()
RECURSIVE LStrip(_)
LStrip(s) == IF s # <<>> /\ Head(s) = " " THEN LStrip(Tail(s)) ELSE s
RECURSIVE RStrip(_)
RStrip(s) == IF s # <<>> /\ s[Len(s)] = " " THEN RStrip(SubSeq(s, 1, Len(s) - 1)) ELSE s
Strip(s) == RStrip(LStrip(s))

\* the numerals float() and int() accept, among the tokens of the model
FloatWords == {"1500", "12.5", "nan", "inf"}
WordFloat(w) ==
    CASE w = "1500" -> I(1500)
      [] w = "12.5" -> Fin(25, 2)
      [] w = "nan" -> NaN
      [] w = "inf" -> PInf
IntWords == {"1500"}
WordInt(w) == CASE w = "1500" -> 1500

\* float(x): <<TRUE, value>>, or <<FALSE, _>> when Python raises
PyFloat(x) ==
    CASE x.t \in {"num", "bool"} -> <<TRUE, x.v>>
      [] x.t = "str" ->
            LET w == Strip(x.s)
            IN  IF Len(w) = 1 /\ w[1] \in FloatWords
                THEN <<TRUE, WordFloat(w[1])>> ELSE <<FALSE, NaN>>
      [] OTHER -> <<FALSE, NaN>>

\* int(x): truncation toward zero for a finite float; ValueError for nan,
\* OverflowError for an infinity, ValueError for a text that is not an integer
PyInt(x) ==
    CASE x.t \in {"num", "bool"} ->
            IF IsFin(x.v)
            THEN <<TRUE, Sign(x.v) * (Abs(x.v.n) \div x.v.d)>>
            ELSE <<FALSE, 0>>
      [] x.t = "str" ->
            LET w == Strip(x.s)
            IN  IF Len(w) = 1 /\ w[1] \in IntWords
                THEN <<TRUE, WordInt(w[1])>> ELSE <<FALSE, 0>>
      [] OTHER -> <<FALSE, 0>>

\* (variant: no default when float() raises)
_to_float_Raw(x, default) == PyFloat(x)[2]

\* _to_float(x, default), default a Python number
_to_float(x, default) == IF PyFloat(x)[1] THEN PyFloat(x)[2] ELSE default

\* _to_int(x, default)
_to_int(x, default) == IF PyInt(x)[1] THEN PyInt(x)[2] ELSE default

\* _clamp(x, lo, hi) = max(lo, min(hi, x))
_clamp(x, lo, hi) == PyMax(lo, PyMin(hi, x))

\* str(x) of a JSON value
PyStr(x) ==
    CASE x.t = "str" -> x.s
      [] x.t = "null" -> <<"None">>
      [] x.t = "bool" -> IF x.v.n = 1 THEN <<"True">> ELSE <<"False">>
      [] x.t = "num" -> <<"<number>">>
      [] x.t = "list" -> <<"[...]">>

\* bool(x)
PyBool(x) ==
    CASE x.t \in {"num", "bool"} -> x.v # I(0)
      [] x.t = "str" -> x.s # <<>>
      [] x.t = "list" -> TRUE
      [] OTHER -> FALSE

(***************************************************************************)
(* Configuration                                                           *)
(***************************************************************************)
N_FEATURES == 200
DEFAULT_THRESHOLD == Fin(1, 2)
AGENT_ADJ_MIN == Fin(-30, 100)
AGENT_ADJ_MAX == Fin(30, 100)
DEFAULT_MAX_DEBT_RATIO_AFTER == Fin(45, 100)
DEFAULT_MIN_RESTE_A_VIVRE_AFTER == I(0)
DEFAULT_TAUX_ANNUEL == Fin(35, 1000)

\* the two limits of the primary decision rule
MIN_RESTE_A_VIVRE == I(800)
MAX_TAUX_ENDETTEMENT == Fin(35, 100)

(***************************************************************************)
(* _calc_mensualite                                                        *)
(***************************************************************************)
IntMax(a, b) == IF b > a THEN b ELSE a

\* what a call of a helper ends with: a value, or an exception
Returns(v) == [exc |-> "none", v |-> v]
Throws(exc) == [exc |-> exc, v |-> NaN]

\* line 94, the annuity of a principal at a monthly rate > 0 over n months.
\* 1.0 + 1e-17 is 1.0, so that (1 + taux_mensuel) ** n - 1 is 0.0 and the
\* division raises; (1 + 1e308 / 12) ** n overflows for n >= 2 and raises,
\* and for n = 1 the product taux_mensuel * (1 + taux_mensuel) is inf, which
\* times the principal and over the finite divisor is inf (nan for 0.0).
Annuity(montant, taux_mensuel, n) ==
    CASE taux_mensuel.k = "tiny" -> Throws("ZeroDivisionError")
      [] taux_mensuel.k = "huge" ->
            IF n >= 2 THEN Throws("OverflowError")
            ELSE Returns(FMul(montant, PInf))
      [] OTHER ->
            LET pow == FPow(FAdd(I(1), taux_mensuel), n)
            IN  Returns(FDiv(FMul(montant, FMul(taux_mensuel, pow)), FSub(pow, I(1))))

\* (variant: the principal counts up to 1000 only)
_calc_mensualite_Capped(montant, duree_mois, taux_annuel) ==
    LET m == PyMin(I(1000), PyMax(I(0), montant))
        n == IntMax(1, duree_mois)
        taux_mensuel == FDiv(PyMax(I(0), taux_annuel), I(12))
    IN  IF FLe(taux_mensuel, I(0)) THEN Returns(FDiv(m, I(n)))
        ELSE Annuity(m, taux_mensuel, n)

\* (variant: with a rate, the installment pays the interest only)
_calc_mensualite_InterestOnly(montant, duree_mois, taux_annuel) ==
    LET m == PyMax(I(0), montant)
        n == IntMax(1, duree_mois)
        taux_mensuel == FDiv(PyMax(I(0), taux_annuel), I(12))
    IN  IF FLe(taux_mensuel, I(0)) THEN Returns(FDiv(m, I(n)))
        ELSE IF ~IsFin(taux_mensuel) THEN Annuity(m, taux_mensuel, n)
        ELSE Returns(FMul(m, taux_mensuel))

_calc_mensualite(montant, duree_mois, taux_annuel) ==
    LET m == PyMax(I(0), montant)
        n == IntMax(1, duree_mois)
        taux_mensuel == FDiv(PyMax(I(0), taux_annuel), I(12))
    IN  IF FLe(taux_mensuel, I(0)) THEN Returns(FDiv(m, I(n)))
        ELSE Annuity(m, taux_mensuel, n)

(***************************************************************************)
(* _business_to_features                                                   *)
(***************************************************************************)
STATUTS ==
    << <<"CDI">>, <<"CDD">>, <<"Sans", " ", "emploi">>, <<"Etudiant">>,
       <<"Fonctionnaire">>, <<"Independant">>, <<"Retraite">> >>
obj_map ==
    << <<"Achat", " ", "immobilier">>, <<"Travaux">>, <<"Vehicule">>,
       <<"Consommation">>, <<"Tresorerie">>, <<"Autre">> >>

\* (variant: the slots of the names that do not match are set)
OneHot_Inverted(b) == IF b THEN I(0) ELSE I(1)

\* 1.0 if the text is the name, else 0.0
OneHot(b) == IF b THEN I(1) ELSE I(0)

\* base_mix, the linear combination behind the filler slots
BaseMix(age, revenu, charges, credits, mensualite_credit, anciennete, annees_res, is_cdi, is_sans_emploi, taux_endettement_after, reste_a_vivre_after) ==
    LET t1 == FMul(age, Fin(1, 100))
        t2 == FAdd(t1, FMul(revenu, Fin(1, 1000)))
        t3 == FSub(t2, FMul(charges, Fin(12, 10000)))
        t4 == FSub(t3, FMul(credits, Fin(15, 10000)))
        t5 == FSub(t4, FMul(mensualite_credit, Fin(18, 10000)))
        t6 == FAdd(t5, FMul(anciennete, Fin(4, 1000)))
        t7 == FAdd(t6, FMul(annees_res, Fin(1, 100)))
        t8 == FAdd(t7, FMul(is_cdi, Fin(2, 10)))
        t9 == FSub(t8, FMul(is_sans_emploi, Fin(3, 10)))
        t10 == FSub(t9, FMul(taux_endettement_after, Fin(5, 10)))
    IN  FAdd(t10, FMul(FDiv(reste_a_vivre_after, PyMax(revenu, I(1))), Fin(2, 10)))

\* (variant: the perturbation of slot i is i * 0.01)
Filler_ByIndex(base_mix, i) ==
    IF ~IsFin(base_mix) THEN base_mix
    ELSE LET l == LCM(base_mix.d, 100)
         IN  [k |-> "fin", n |-> base_mix.n * (l \div base_mix.d) + i * (l \div 100),
              d |-> l]

\* the value of filler slot i (28 <= i < N_FEATURES):
\* base_mix + (i % 7) * 0.03 - (i % 5) * 0.02, the two steps taken at once over
\* the common denominator (the result is left unreduced)
Filler(base_mix, i) ==
    IF ~IsFin(base_mix) THEN base_mix
    ELSE LET l == LCM(base_mix.d, 100)
         IN  [k |-> "fin",
              n |-> base_mix.n * (l \div base_mix.d)
                    + (3 * (i % 7) - 2 * (i % 5)) * (l \div 100),
              d |-> l]

\* the vector built from the request, before the finiteness test
\* (base_mix is bound as a value, so that it is computed once for the vector)
Features(b, mensualite_credit, taux_endettement_after, reste_a_vivre_after) ==
    LET age == _to_float(Get(b, "age", JNum(I(30))), I(0))
        revenu == _to_float(Get(b, "revenu_mensuel", JNum(I(0))), I(0))
        charges == _to_float(Get(b, "charges_mensuelles", JNum(I(0))), I(0))
        credits == _to_float(Get(b, "credits_encours", JNum(I(0))), I(0))
        anciennete == _to_float(Get(b, "anciennete_pro", JNum(I(0))), I(0))
        annees_res == _to_float(Get(b, "annees_residence", JNum(I(0))), I(0))
        statut == Strip(PyStr(Get(b, "statut_pro", JStr(<<>>))))
        montant_credit == _to_float(Get(b, "montant_credit", JNum(I(0))), I(0))
        duree_credit == _to_int(Get(b, "duree_credit", JNum(I(0))), 0)
        objet_credit == Strip(PyStr(Get(b, "objet_credit", JStr(<<>>))))
        denom == PyMax(revenu, I(1))
        Slot(i, base_mix) ==
            CASE i = 0 -> age
              [] i = 1 -> revenu
              [] i = 2 -> charges
              [] i = 3 -> credits
              [] i = 4 -> anciennete
              [] i = 5 -> annees_res
              [] i \in 6..12 -> OneHot(statut = STATUTS[i - 5])
              [] i = 13 -> FDiv(charges, denom)
              [] i = 14 -> FDiv(credits, denom)
              [] i = 15 -> FDiv(FAdd(charges, credits), denom)
              [] i = 16 -> FSub(FSub(revenu, charges), credits)
              [] i = 17 -> montant_credit
              [] i = 18 -> I(duree_credit)
              [] i = 19 -> mensualite_credit
              [] i = 20 -> taux_endettement_after
              [] i = 21 -> reste_a_vivre_after
              [] i \in 22..27 -> OneHot(objet_credit = obj_map[i - 21])
              [] OTHER -> Filler(base_mix, i)
    IN  CHOOSE feats \in
            { [i \in 0..(N_FEATURES - 1) |-> Slot(i, base_mix)] :
                base_mix \in {BaseMix(age, revenu, charges, credits, mensualite_credit,
                                      anciennete, annees_res, OneHot(statut = STATUTS[1]),
                                      OneHot(statut = STATUTS[3]),
                                      taux_endettement_after, reste_a_vivre_after)} } :
            TRUE

\* (variant: the vector is not looked at)
AllFinite_Unchecked(feats) == TRUE

\* np.isfinite(feats).all()
AllFinite(feats) == \A i \in DOMAIN feats : feats[i].k \in {"fin", "tiny", "huge"}

\* _business_to_features: the vector, or ValueError when a slot is not finite
_business_to_features(b, mensualite_credit, taux_endettement_after, reste_a_vivre_after) ==
    LET feats == Features(b, mensualite_credit, taux_endettement_after, reste_a_vivre_after)
    IN  IF AllFinite(feats) THEN [exc |-> "none", X |-> feats]
        ELSE [exc |-> "ValueError", X |-> feats]

(***************************************************************************)
(* _predict_risk_score and the steps of predict()                          *)
(***************************************************************************)
\* one entry of the log of calls made while a request is handled
Call(fn, out, val) == [fn |-> fn, out |-> out, val |-> val]

\* one of the logged calls raised
Raises(calls) == \E i \in DOMAIN calls : calls[i].out # "ok"

\* _predict_risk_score(x): art holds the loaded artifacts, oracle what
\* scaler.transform and model.predict_proba do when they are called.
\* Result: the exception raised ("none" when it returns), the score, the calls.
_predict_risk_score(art, oracle) ==
    LET scaled == IF art.USES_SCALER
                  THEN <<Call("scaler.transform", oracle.scaler, I(0))>> ELSE <<>>
    IN  IF art.USES_SCALER /\ oracle.scaler # "ok"
        THEN [exc |-> oracle.scaler, score |-> NaN, calls |-> scaled]
        ELSE IF ~art.model.predict_proba
        THEN [exc |-> "AttributeError", score |-> NaN, calls |-> scaled]
        ELSE IF oracle.model # "ok"
        THEN [exc |-> oracle.model, score |-> NaN,
              calls |-> scaled \o <<Call("model.predict_proba", oracle.model, I(0))>>]
        ELSE [exc |-> "none", score |-> oracle.score,
              calls |-> scaled \o <<Call("model.predict_proba", "ok", oracle.score)>>]

\* _json_error(message, status_code, **extra)
NoExtra == [key \in {} |-> ""]
\* (variant: the error payload also carries a decision)
_json_error_Decided(message, status_code, extra) ==
    [status |-> status_code, body |-> [error |-> message, decision |-> 0] @@ extra]

_json_error(message, status_code, extra) ==
    [status |-> status_code, body |-> [error |-> message] @@ extra]

\* no response yet
NoResponse == [status |-> 0, body |-> NoExtra]

\* jsonify(payload): status 200
jsonify(payload) == [status |-> 200, body |-> payload]

\* (variant: without the last clause, other exceptions leave the handler)
OnException_TwoClauses(exc) ==
    CASE exc = "AttributeError" ->
            _json_error("AttributeError", 500, NoExtra)
      [] exc = "ValueError" ->
            _json_error("Valeurs invalides", 400, [details |-> "ValueError"])
      [] OTHER -> [status |-> 0, body |-> [escaped |-> exc]]

\* the three except clauses of predict()
OnException(exc) ==
    CASE exc = "AttributeError" ->
            _json_error("AttributeError", 500, NoExtra)
      [] exc = "ValueError" ->
            _json_error("Valeurs invalides", 400, [details |-> "ValueError"])
      [] OTHER ->
            _json_error("Erreur interne serveur", 500, [details |-> exc])

\* (variant: only a negative income is refused)
FastReject_Negative(revenu) == FLt(revenu, I(0))

\* "if revenu <= 0" : the automatic refusal
FastReject(revenu) == FLe(revenu, I(0))

FastRejectPayload(data, revenu) ==
    [decision |-> 0,
     reason |-> "Revenu mensuel nul ou inexistant",
     risk_score_model |-> I(1),
     risk_score_adjusted |-> I(1),
     threshold |-> _to_float(Get(data, "threshold", JNum(DEFAULT_THRESHOLD)), DEFAULT_THRESHOLD),
     kpis |-> [revenu_mensuel |-> revenu]]

\* (variant: the term is not looked at)
CreditInvalid_NoDuree(montant_credit, duree_credit, objet_credit) ==
    FLe(montant_credit, I(0)) \/ objet_credit = <<>>

\* "if montant_credit <= 0 or duree_credit <= 0 or objet_credit == ''"
CreditInvalid(montant_credit, duree_credit, objet_credit) ==
    FLe(montant_credit, I(0)) \/ duree_credit <= 0 \/ objet_credit = <<>>

REQUIRED == <<"montant_credit (>0)", "duree_credit (>0)", "objet_credit (non vide)">>

\* "if not (0.0 <= threshold <= 1.0)"
ThresholdInvalid(threshold) == ~(FLe(I(0), threshold) /\ FLe(threshold, I(1)))

\* (variant: the adjustment is applied as supplied)
AgentAdjustment_Unclamped(data) ==
    _to_float(Get(data, "agent_adjustment", JNum(I(0))), I(0))

\* agent_adjustment = _clamp(agent_adjustment, AGENT_ADJ_MIN, AGENT_ADJ_MAX)
AgentAdjustment(data) ==
    _clamp(_to_float(Get(data, "agent_adjustment", JNum(I(0))), I(0)),
           AGENT_ADJ_MIN, AGENT_ADJ_MAX)

\* risk_score_adjusted = _clamp(risk_score_model + agent_adjustment, 0.0, 1.0)
RiskScoreAdjusted(risk_score_model, agent_adjustment) ==
    _clamp(FAdd(risk_score_model, agent_adjustment), I(0), I(1))

\* (variant: the residual income must exceed the minimum)
PrimaryDecision_Strict(l, risk_score_adjusted) ==
    IF FGt(l.reste_a_vivre_after, MIN_RESTE_A_VIVRE)
       /\ FLe(l.taux_endettement_after, MAX_TAUX_ENDETTEMENT)
    THEN 1 ELSE 0

\* (variant: accepted when the adjusted score is under the threshold)
PrimaryDecision_ByScore(l, risk_score_adjusted) ==
    IF FLt(risk_score_adjusted, l.threshold) THEN 1 ELSE 0

\* lines 341-346, the primary rule, with the locals in scope (l) and the
\* adjusted score: accepted when enough is left to live on and the debt ratio
\* is low enough; neither the score nor the threshold is read
PrimaryDecision(l, risk_score_adjusted) ==
    IF FGe(l.reste_a_vivre_after, MIN_RESTE_A_VIVRE)
       /\ FLe(l.taux_endettement_after, MAX_TAUX_ENDETTEMENT)
    THEN 1 ELSE 0

\* f"{x:.2f}" and f"{x:.0f}": x rounded to that many decimals (a non-finite
\* x prints as itself)
RECURSIVE Pow10(_)
Pow10(k) == IF k = 0 THEN 1 ELSE 10 * Pow10(k - 1)
Floor(x) == x.n \div x.d
Format(x, decimals) ==
    IF ~IsFin(x) THEN x
    ELSE Fin(Floor(FAdd(FMul(x, I(Pow10(decimals))), Fin(1, 2))), Pow10(decimals))

\* (variant: a figure that is just at its limit violates the guardrail)
GuardrailReasons_Inclusive(taux_endettement_after, reste_a_vivre_after, max_debt_ratio_after, min_reste_after) ==
    LET r1 == IF FGe(taux_endettement_after, max_debt_ratio_after)
              THEN <<[text |-> "Taux d'endettement apres credit >",
                              value |-> Format(max_debt_ratio_after, 2)]>>
              ELSE <<>>
    IN  IF FLe(reste_a_vivre_after, min_reste_after)
        THEN r1 \o <<[text |-> "Reste a vivre apres credit <",
                      value |-> Format(min_reste_after, 0)]>>
        ELSE r1

\* the reasons appended by the two guardrails, in the order of the code
GuardrailReasons(taux_endettement_after, reste_a_vivre_after, max_debt_ratio_after, min_reste_after) ==
    LET r1 == IF FGt(taux_endettement_after, max_debt_ratio_after)
              THEN <<[text |-> "Taux d'endettement apres credit >",
                              value |-> Format(max_debt_ratio_after, 2)]>>
              ELSE <<>>
    IN  IF FLt(reste_a_vivre_after, min_reste_after)
        THEN r1 \o <<[text |-> "Reste a vivre apres credit <",
                      value |-> Format(min_reste_after, 0)]>>
        ELSE r1

\* (variant: a violated guardrail leaves the decision alone)
FinalDecision_NoOverride(decision, use_guardrails, guardrail_reasons) == decision

\* (variant: guardrails that are enabled and not violated accept)
FinalDecision_AcceptClean(decision, use_guardrails, guardrail_reasons) ==
    IF use_guardrails THEN (IF guardrail_reasons # <<>> THEN 0 ELSE 1) ELSE decision

\* "if guardrail_reasons: decision = 0"
FinalDecision(decision, use_guardrails, guardrail_reasons) ==
    IF use_guardrails /\ guardrail_reasons # <<>> THEN 0 ELSE decision

(***************************************************************************)
(* predict(): the handler of POST /predict                                 *)
(***************************************************************************)
\* the handler's answer together with the calls it made
Handled(resp, calls) == [resp |-> resp, calls |-> calls]

\* (variant: the ratios are taken over the income itself)
Denom_Income(revenu) == revenu

\* (variant: the ratios are not taken over the income)
Denom_Unit(revenu) == I(1)

\* line 320: denom, the denominator of the debt ratios
Denom(revenu) == PyMax(revenu, I(1))

\* lines 303-333: the locals of a valid request, up to the feature vector
Locals(data, revenu, montant_credit, duree_credit, objet_credit, threshold) ==
    LET taux_annuel ==
            PyMax(I(0), _to_float(Get(data, "taux_annuel", JNum(DEFAULT_TAUX_ANNUEL)),
                                  DEFAULT_TAUX_ANNUEL))
        charges == _to_float(Get(data, "charges_mensuelles", JNum(I(0))), I(0))
        credits == _to_float(Get(data, "credits_encours", JNum(I(0))), I(0))
        calc == _calc_mensualite(montant_credit, duree_credit, taux_annuel)
        mensualite_credit == calc.v
        denom == Denom(revenu)
        taux_endettement_after ==
            FDiv(FAdd(FAdd(charges, credits), mensualite_credit), denom)
        reste_a_vivre_after ==
            FSub(FSub(FSub(revenu, charges), credits), mensualite_credit)
    IN  [montant_credit |-> montant_credit,
         duree_credit |-> duree_credit,
         objet_credit |-> objet_credit,
         threshold |-> threshold,
         taux_annuel |-> taux_annuel,
         agent_adjustment |-> AgentAdjustment(data),
         agent_comment |-> Get(data, "agent_comment", JNull),
         raised |-> calc.exc,
         mensualite_credit |-> mensualite_credit,
         taux_endettement_before |-> FDiv(FAdd(charges, credits), denom),
         reste_a_vivre_before |-> FSub(FSub(revenu, charges), credits),
         taux_endettement_after |-> taux_endettement_after,
         reste_a_vivre_after |-> reste_a_vivre_after,
         built |-> IF calc.exc # "none" THEN [exc |-> calc.exc, X |-> <<>>]
                   ELSE _business_to_features(data, mensualite_credit,
                                              taux_endettement_after,
                                              reste_a_vivre_after)]

\* lines 338-412: the payload, once the model has returned risk_score_model
Payload(data, art, l, risk_score_model) ==
    LET risk_score_adjusted == RiskScoreAdjusted(risk_score_model, l.agent_adjustment)
        decision == PrimaryDecision(l, risk_score_adjusted)
        use_guardrails == PyBool(Get(data, "use_guardrails", JBool(FALSE)))
        max_debt_ratio_after ==
            _to_float(Get(data, "max_debt_ratio_after", JNum(DEFAULT_MAX_DEBT_RATIO_AFTER)),
                      DEFAULT_MAX_DEBT_RATIO_AFTER)
        min_reste_after ==
            _to_float(Get(data, "min_reste_a_vivre_after",
                          JNum(DEFAULT_MIN_RESTE_A_VIVRE_AFTER)),
                      DEFAULT_MIN_RESTE_A_VIVRE_AFTER)
        guardrail_reasons ==
            IF use_guardrails
            THEN GuardrailReasons(l.taux_endettement_after, l.reste_a_vivre_after,
                                  max_debt_ratio_after, min_reste_after)
            ELSE <<>>
        payload ==
            [model_type |-> art.MODEL_TYPE,
             uses_scaler |-> art.USES_SCALER,
             risk_score_model |-> risk_score_model,
             risk_score_adjusted |-> risk_score_adjusted,
             threshold |-> l.threshold,
             agent_adjustment |-> l.agent_adjustment,
             agent_comment |-> l.agent_comment,
             decision |-> FinalDecision(decision, use_guardrails, guardrail_reasons),
             credit |-> [montant_credit |-> l.montant_credit,
                         duree_credit |-> l.duree_credit,
                         objet_credit |-> l.objet_credit,
                         taux_annuel |-> l.taux_annuel,
                         mensualite_estimee |-> l.mensualite_credit],
             kpis |-> [taux_endettement_before |-> l.taux_endettement_before,
                       reste_a_vivre_before |-> l.reste_a_vivre_before,
                       taux_endettement_after |-> l.taux_endettement_after,
                       reste_a_vivre_after |-> l.reste_a_vivre_after]]
        guardrails ==
            IF use_guardrails
            THEN [guardrails |-> [enabled |-> TRUE,
                                  forced_refusal |-> guardrail_reasons # <<>>,
                                  reasons |-> guardrail_reasons,
                                  max_debt_ratio_after |-> max_debt_ratio_after,
                                  min_reste_a_vivre_after |-> min_reste_after]]
            ELSE NoExtra
        debug ==
            IF PyBool(Get(data, "debug", JBool(FALSE)))
            THEN [debug |-> [first_30_features |-> [i \in 1..30 |-> l.built.X[i - 1]]]]
            ELSE NoExtra
    IN  payload @@ guardrails @@ debug

\* lines 265-333: the handler up to the call of _predict_risk_score. Either it
\* has answered (an early return, or an exception of the feature builder), or
\* the request goes on to the scorer with the locals l.
Ready(answered, resp, calls, data, l) ==
    [answered |-> answered, resp |-> resp, calls |-> calls, data |-> data, l |-> l]
Early(resp, data) == Ready(TRUE, resp, <<>>, data, NoExtra)

\* lines 317-333: the installment, the KPIs and the feature vector are in l
Built(data, l) ==
    LET calls == IF l.raised # "none"
                 THEN <<Call("_calc_mensualite", l.raised, NaN)>>
                 ELSE <<Call("_calc_mensualite", "ok", l.mensualite_credit),
                        Call("_business_to_features",
                             IF l.built.exc = "none" THEN "ok" ELSE l.built.exc, I(0))>>
    IN  IF l.built.exc # "none"
        THEN Ready(TRUE, OnException(l.built.exc), calls, data, NoExtra)
        ELSE Ready(FALSE, NoResponse, calls, data, l)

\* (the locals are bound as a value, so that they are computed once)
BeforeScore(body) ==
    IF body.kind = "none"
    THEN Early(_json_error("Body JSON manquant", 400, NoExtra), body.f)
    ELSE IF body.kind # "object"
    THEN Early(OnException("AttributeError"), body.f)
    ELSE
    LET data == body.f
        revenu == _to_float(Get(data, "revenu_mensuel", JNum(I(0))), I(0))
        montant_credit == _to_float(Get(data, "montant_credit", JNum(I(0))), I(0))
        duree_credit == _to_int(Get(data, "duree_credit", JNum(I(0))), 0)
        objet_credit == Strip(PyStr(Get(data, "objet_credit", JStr(<<>>))))
        threshold == _to_float(Get(data, "threshold", JNum(DEFAULT_THRESHOLD)),
                               DEFAULT_THRESHOLD)
    IN  IF FastReject(revenu)
        THEN Early(jsonify(FastRejectPayload(data, revenu)), data)
        ELSE IF CreditInvalid(montant_credit, duree_credit, objet_credit)
        THEN Early(_json_error("Champs credit manquants ou invalides", 400,
                               [required |-> REQUIRED]), data)
        ELSE IF ThresholdInvalid(threshold)
        THEN Early(_json_error("threshold doit etre compris entre 0 et 1", 400,
                               NoExtra), data)
        ELSE CHOOSE ready \in
                 { Built(data, l) :
                     l \in {Locals(data, revenu, montant_credit, duree_credit,
                                   objet_credit, threshold)} } : TRUE

\* lines 336-419: the call of _predict_risk_score and what follows it
AfterScore(ready, art, oracle) ==
    LET scored == _predict_risk_score(art, oracle)
    IN  IF ready.answered THEN Handled(ready.resp, ready.calls)
        ELSE IF scored.exc # "none"
        THEN Handled(OnException(scored.exc), ready.calls \o scored.calls)
        ELSE Handled(jsonify(Payload(ready.data, art, ready.l, scored.score)),
                     ready.calls \o scored.calls)

\* predict(): body is the request body as get_json(silent=True) sees it
predict(body, art, oracle) == AfterScore(BeforeScore(body), art, oracle)

(***************************************************************************)
(* The two GET routes                                                      *)
(***************************************************************************)
health == jsonify([status |-> "ok"])

model_info(art) ==
    jsonify([model_type |-> art.MODEL_TYPE,
             n_features |-> N_FEATURES,
             uses_scaler |-> art.USES_SCALER,
             threshold_default |-> DEFAULT_THRESHOLD,
             agent_adjustment_range |-> <<AGENT_ADJ_MIN, AGENT_ADJ_MAX>>,
             guardrails_defaults |->
                 [max_debt_ratio_after |-> DEFAULT_MAX_DEBT_RATIO_AFTER,
                  min_reste_a_vivre_after |-> DEFAULT_MIN_RESTE_A_VIVRE_AFTER],
             credit_defaults |-> [taux_annuel_default |-> DEFAULT_TAUX_ANNUEL]])

(***************************************************************************)
(* Requests of the model                                                   *)
(***************************************************************************)
Fields ==
    {"age", "statut_pro", "anciennete_pro", "revenu_mensuel", "charges_mensuelles",
     "credits_encours", "annees_residence", "montant_credit", "duree_credit",
     "objet_credit", "taux_annuel", "threshold", "agent_adjustment", "agent_comment",
     "use_guardrails", "max_debt_ratio_after", "min_reste_a_vivre_after", "debug"}

\* the JSON object whose keys are those of the record o
Obj(o) == [f \in Fields |-> IF f \in DOMAIN o THEN o[f] ELSE Missing]
Body(o) == [kind |-> "object", f |-> Obj(o)]
\* no body, a body that is not JSON, or the JSON null
NoBody == [kind |-> "none", f |-> Obj(NoExtra)]
\* a JSON body that is not an object (an array, a number, a text)
ArrayBody == [kind |-> "array", f |-> Obj(NoExtra)]

\* longest term, in months, of the requests of the model
MaxDuree == 2

\* an applicant with every personal field filled in
Profile ==
    [age |-> JNum(I(30)), statut_pro |-> JStr(<<"CDI">>), anciennete_pro |-> JNum(I(36)),
     annees_residence |-> JNum(I(3)), objet_credit |-> JStr(<<"Consommation">>)]

\* the guardrail settings a request may carry
GuardrailSettings ==
    { NoExtra,
      [use_guardrails |-> JBool(TRUE)],
      [use_guardrails |-> JBool(TRUE), max_debt_ratio_after |-> JNum(Fin(10, 100))],
      [use_guardrails |-> JBool(TRUE), min_reste_a_vivre_after |-> JNum(I(1000))],
      [use_guardrails |-> JStr(<<"false">>), max_debt_ratio_after |-> JNum(Fin(25, 100)),
       min_reste_a_vivre_after |-> JNum(I(1500))],
      [use_guardrails |-> JBool(FALSE), max_debt_ratio_after |-> JNum(Fin(10, 100))],
      [use_guardrails |-> JBool(TRUE), max_debt_ratio_after |-> JNum(Fin(35, 100)),
       min_reste_a_vivre_after |-> JNum(I(800))] }

\* requests that differ in the money: income, charges, loans, principal, term, rate
MoneyRequests ==
    { Body(Profile @@ g @@ c @@
           [revenu_mensuel |-> JNum(I(revenu)), charges_mensuelles |-> JNum(I(charges)),
            montant_credit |-> JNum(I(montant)), duree_credit |-> JNum(I(duree)),
            taux_annuel |-> JNum(taux)]) :
        revenu \in {1000, 2000}, charges \in {0, 100, 300, 600},
        montant \in {100, 200, 1000}, duree \in 1..MaxDuree,
        taux \in {I(0), Fin(12, 10)},
        c \in {NoExtra, [credits_encours |-> JNum(I(100))]},
        g \in GuardrailSettings }

\* a request the primary rule accepts, one it refuses, and the accepted one
\* under a guardrail that forces the refusal
Accepted ==
    Profile @@ [revenu_mensuel |-> JNum(I(2000)), charges_mensuelles |-> JNum(I(300)),
                montant_credit |-> JNum(I(200)), duree_credit |-> JNum(I(1))]
Refused ==
    Profile @@ [revenu_mensuel |-> JNum(I(1000)), charges_mensuelles |-> JNum(I(300)),
                montant_credit |-> JNum(I(200)), duree_credit |-> JNum(I(1))]
Forced ==
    Accepted @@ [use_guardrails |-> JBool(TRUE),
                 max_debt_ratio_after |-> JNum(Fin(10, 100))]

Optional(key, values) == {NoExtra} \cup {[k \in {key} |-> v] : v \in values}

ThresholdValues ==
    {JNum(I(0)), JNum(I(1)), JNum(Fin(1, 2)), JNum(Fin(3, 2)), JNum(Fin(-1, 10)),
     JStr(<<"abc">>), JNum(NaN), JNull}
AdjustmentValues ==
    {JNum(I(5)), JNum(I(-5)), JNum(Fin(1, 10)), JNum(Fin(-3, 10)), JStr(<<"abc">>),
     JNum(NaN)}

\* requests that differ in the fields that steer the score
ControlRequests ==
    { Body(base @@ t @@ a @@ c @@ d) :
        base \in {Accepted, Refused, Forced},
        t \in Optional("threshold", ThresholdValues),
        a \in Optional("agent_adjustment", AdjustmentValues),
        c \in Optional("agent_comment", {JStr(<<"Garant">>)}),
        d \in Optional("debug", {JBool(TRUE)}) }

\* requests with a missing or invalid income or credit field
InvalidRequests ==
    { Body([age |-> JNum(I(30)), statut_pro |-> JStr(<<"CDD">>)]
           @@ r @@ m @@ d @@ o @@ t) :
        r \in Optional("revenu_mensuel",
                       {JStr(<<"abc">>), JNum(I(0)), JNum(I(-500)), JStr(<<"1500">>),
                        JNum(I(2000)), JNum(NaN)}),
        m \in Optional("montant_credit",
                       {JNum(I(0)), JNum(I(-1000)), JStr(<<"abc">>), JNum(I(1000))}),
        d \in Optional("duree_credit",
                       {JNum(I(0)), JNum(I(-1)), JStr(<<"12.5">>), JNum(Fin(1, 2)),
                        JNum(I(1))}),
        o \in Optional("objet_credit",
                       {JStr(<<>>), JStr(<<" ", " ">>), JStr(<<" ", "Travaux", " ">>)}),
        t \in Optional("threshold", {JNum(Fin(3, 2))}) }

\* requests whose rate, income or age is not an ordinary number, or whose
\* income is below 1
OddRequests ==
    { Body(Accepted @@ [duree_credit |-> JNum(I(duree)), taux_annuel |-> JNum(taux)]) :
        duree \in 1..MaxDuree, taux \in {Tiny, Huge, PInf, NaN, I(-1)} }
    \cup { Body([revenu_mensuel |-> r] @@ Accepted) :
             r \in {JStr(<<"inf">>), JStr(<<"nan">>), JNum(Fin(1, 2))} }
    \cup { Body([age |-> a] @@ Accepted) : a \in {JStr(<<"nan">>), JNum(PInf), JList} }

Bodies ==
    MoneyRequests \cup ControlRequests \cup InvalidRequests \cup OddRequests
    \cup {NoBody, ArrayBody}

Requests ==
    {[route |-> "POST /predict", body |-> b] : b \in Bodies}
    \cup {[route |-> r, body |-> NoBody] : r \in {"GET /health", "GET /model-info"}}

\* what scaler.transform and model.predict_proba do when called: return
\* (the score), or raise
Scores == {I(0), Fin(1, 5), Fin(1, 2), Fin(9, 10), I(1)}
Raised == {"ValueError", "Exception"}
Oracles ==
    {[scaler |-> "ok", model |-> "ok", score |-> s] : s \in Scores}
    \cup {[scaler |-> "ok", model |-> e, score |-> NaN] : e \in Raised}
    \cup {[scaler |-> e, model |-> "ok", score |-> NaN] : e \in Raised}

\* the artifacts joblib.load may find at start-up
Models ==
    {[type |-> "LogisticRegression", predict_proba |-> TRUE],
     [type |-> "LinearSVC", predict_proba |-> FALSE]}
Scalers == {"None", "StandardScaler"}

(***************************************************************************)
(* The process                                                             *)
(***************************************************************************)
VARIABLES
    model,          \* the loaded model
    scaler,         \* the loaded scaler, or "None"
    MODEL_TYPE,     \* model.__class__.__name__
    USES_SCALER,    \* scaler is not None
    request,        \* the request being handled
    response,       \* the handler's answer to it
    invoked,        \* the calls the handler made for it
    kept,           \* an earlier exchange, remembered for comparison
    threads,        \* the handlers running concurrently, each with its locals
    args,           \* the arguments of a helper called on its own
    result,         \* what that call ended with
    page,           \* the Streamlit script a browser session runs, or "none"
    session_state,  \* st.session_state of that session: etape and donnees
    clicked         \* the last button clicked there, with the form as it was

vars ==
    <<model, scaler, MODEL_TYPE, USES_SCALER, request, response, invoked, kept, threads,
      args, result, page, session_state, clicked>>

Artifacts ==
    [model |-> model, scaler |-> scaler, MODEL_TYPE |-> MODEL_TYPE,
     USES_SCALER |-> USES_SCALER]

NoRequest == [route |-> "none", body |-> NoBody]
NoExchange == [request |-> NoRequest, response |-> NoResponse, invoked |-> <<>>]

\* the module-level names after a request: predict(), health() and
\* model_info() assign none of them
\* (variant: a failed call switches the scaler off for later requests)
ArtifactsAfter_Disabling(art, calls) ==
    IF Raises(calls) THEN [art EXCEPT !.USES_SCALER = FALSE] ELSE art

ArtifactsAfter(art, calls) == art

\* no helper is called on its own
NoCall == [fn |-> "none"]

\* the handlers that may run at once
MaxThreads == 2
Threads == 1..MaxThreads

\* a handler with no request
Idle ==
    [pc |-> "idle", body |-> NoBody,
     oracle |-> [scaler |-> "ok", model |-> "ok", score |-> NaN],
     ready |-> Early(NoResponse, NoBody.f), score |-> NaN,
     resp |-> NoResponse, calls |-> <<>>]

\* no browser session is open
NoClick == [button |-> "none"]
NoWizard ==
    /\ page = "none"
    /\ session_state = [etape |-> 0]
    /\ clicked = NoClick

\* the process after start-up, serving no request
Started ==
    /\ model \in Models
    /\ scaler \in Scalers
    /\ MODEL_TYPE = model.type
    /\ USES_SCALER = (scaler # "None")
    /\ request = NoRequest
    /\ response = NoResponse
    /\ invoked = <<>>
    /\ kept = NoExchange
    /\ threads = [t \in Threads |-> Idle]

Init ==
    /\ Started
    /\ NoWizard
    /\ args = NoCall
    /\ result = NoCall

\* a request arrives while none is being handled
ReceiveFrom(requests) ==
    /\ request = NoRequest
    /\ request' \in requests
    /\ UNCHANGED <<page, session_state, clicked, model, scaler, MODEL_TYPE,
                   USES_SCALER, response, invoked, kept, threads, args, result>>

Receive == ReceiveFrom(Requests)

Answer(resp, calls) ==
    LET after == ArtifactsAfter(Artifacts, calls)
    IN  /\ response' = resp
        /\ invoked' = calls
        /\ model' = after.model
        /\ scaler' = after.scaler
        /\ MODEL_TYPE' = after.MODEL_TYPE
        /\ USES_SCALER' = after.USES_SCALER
        /\ UNCHANGED <<page, session_state, clicked, request, kept, threads, args,
                       result>>

\* POST /predict is handled; the artifacts answer as one of the oracles
PredictWith(oracles) ==
    /\ request.route = "POST /predict"
    /\ response = NoResponse
    /\ \E ready \in {BeforeScore(request.body)}, oracle \in oracles :
          \E h \in {AfterScore(ready, Artifacts, oracle)} : Answer(h.resp, h.calls)

Predict == PredictWith(Oracles)

Health ==
    /\ request.route = "GET /health"
    /\ response = NoResponse
    /\ Answer(health, <<>>)

ModelInfo ==
    /\ request.route = "GET /model-info"
    /\ response = NoResponse
    /\ Answer(model_info(Artifacts), <<>>)

\* the response is sent and everything built for the request is discarded
Respond ==
    /\ response # NoResponse
    /\ request' = NoRequest
    /\ response' = NoResponse
    /\ invoked' = <<>>
    /\ UNCHANGED <<page, session_state, clicked, model, scaler, MODEL_TYPE,
                   USES_SCALER, kept, threads, args, result>>

Next == Receive \/ Predict \/ Health \/ ModelInfo \/ Respond

Spec == Init /\ [][Next]_vars

\* POST /predict alone, with a request for each way the handler ends: no
\* body, a body that is no object, the automatic refusal, invalid credit
\* fields or threshold, an installment or a vector that raises, a decision
OutcomeBodies ==
    OddRequests
    \cup {NoBody, ArrayBody, Body(NoExtra), Body(Accepted), Body(Refused), Body(Forced),
          Body(Accepted @@ [threshold |-> JNum(Fin(3, 2))]),
          Body([montant_credit |-> JNum(I(0))] @@ Accepted),
          Body(Accepted @@ [debug |-> JBool(TRUE)])}
ReceiveOutcome ==
    ReceiveFrom({[route |-> "POST /predict", body |-> b] : b \in OutcomeBodies})

NextOutcome == ReceiveOutcome \/ Predict \/ Respond

SpecOutcome == Init /\ [][NextOutcome]_vars

(***************************************************************************)
(* Two exchanges compared: an earlier exchange is remembered while later   *)
(* requests are handled.  The requests are fewer, so that every pair of    *)
(* them is met.                                                            *)
(***************************************************************************)
PairBodies ==
    { Body(base @@ t @@ a @@ c) :
        base \in {Accepted, Refused, Forced},
        t \in Optional("threshold", {JNum(I(0)), JNum(Fin(3, 2))}),
        a \in Optional("agent_adjustment", {JNum(I(5))}),
        c \in Optional("agent_comment", {JStr(<<"Garant">>)}) }
    \cup {Body(NoExtra), NoBody}

PairRequests ==
    {[route |-> "POST /predict", body |-> b] : b \in PairBodies}
    \cup {[route |-> r, body |-> NoBody] : r \in {"GET /health", "GET /model-info"}}

PairOracles ==
    {[scaler |-> "ok", model |-> "ok", score |-> s] : s \in {Fin(1, 5), Fin(9, 10)}}
    \cup {[scaler |-> "ok", model |-> "ValueError", score |-> NaN],
          [scaler |-> "Exception", model |-> "ok", score |-> NaN]}

ReceivePair == ReceiveFrom(PairRequests)
PredictPair == PredictWith(PairOracles)

\* the exchange that has just been answered is remembered
Remember ==
    /\ response # NoResponse
    /\ kept' = [request |-> request, response |-> response, invoked |-> invoked]
    /\ UNCHANGED <<page, session_state, clicked, model, scaler, MODEL_TYPE,
                   USES_SCALER, request, response, invoked, threads, args, result>>

NextPair == ReceivePair \/ PredictPair \/ Health \/ ModelInfo \/ Remember \/ Respond

SpecPair == Init /\ [][NextPair]_vars

(***************************************************************************)
(* The helpers called on their own: the arguments are drawn at the start,  *)
(* a step applies the helper to them.                                      *)
(***************************************************************************)
Apart == UNCHANGED <<page, session_state, clicked, model, scaler, MODEL_TYPE,
                     USES_SCALER, request, response, invoked, kept, threads, args>>

\* values the sanitizers may be given: null, texts, an array or an object,
\* numbers, booleans
SanitizerValues ==
    {JNull, JList, JStr(<<>>), JStr(<<"abc">>), JStr(<<" ">>), JStr(<<"12", " ", "5">>),
     JStr(<<"1500">>), JStr(<<" ", "1500", " ">>), JStr(<<"12.5">>), JStr(<<"nan">>),
     JStr(<<"inf">>), JNum(I(0)), JNum(I(-500)), JNum(Fin(25, 2)), JNum(Fin(-7, 2)),
     JNum(NaN), JNum(PInf), JNum(NInf), JBool(TRUE), JBool(FALSE)}

InitSanitize ==
    /\ Started
    /\ NoWizard
    /\ args \in [fn : {"sanitize"}, x : SanitizerValues,
                  fdefault : {I(0), Fin(1, 2), DEFAULT_TAUX_ANNUEL},
                  idefault : {0, 30}]
    /\ result = NoCall

ToFloat ==
    /\ result = NoCall
    /\ result' = [fn |-> "_to_float", f |-> _to_float(args.x, args.fdefault), i |-> 0]
    /\ Apart

ToInt ==
    /\ result = NoCall
    /\ result' = [fn |-> "_to_int", f |-> I(0), i |-> _to_int(args.x, args.idefault)]
    /\ Apart

NextSanitize == ToFloat \/ ToInt

SpecSanitize == InitSanitize /\ [][NextSanitize]_vars

\* the longest term _calc_mensualite is given with a rate
MaxTerm == 3

Principals == {NaN, I(-500), I(-1), I(0), I(1000), I(2000), PInf}
Terms == {-3, 0} \cup 1..MaxTerm
Rates == {I(-1), I(0), Fin(12, 10), Fin(24, 10), Tiny, Huge, NaN, PInf}

InitMensualite ==
    /\ Started
    /\ NoWizard
    /\ args \in [fn : {"_calc_mensualite"}, montant : Principals, duree_mois : Terms,
                  taux_annuel : Rates]
               \cup {[fn |-> "_calc_mensualite", montant |-> I(12000), duree_mois |-> 12,
                      taux_annuel |-> I(0)]}
    /\ result = NoCall

Mensualite ==
    /\ result = NoCall
    /\ \E r \in {_calc_mensualite(args.montant, args.duree_mois, args.taux_annuel)} :
          result' = [fn |-> "_calc_mensualite", exc |-> r.exc, v |-> r.v]
    /\ Apart

\* the caller is done with the value
Forget ==
    /\ result # NoCall
    /\ result' = [fn |-> "done"]
    /\ Apart

NextMensualite == Mensualite \/ Forget

SpecMensualite == InitMensualite /\ [][NextMensualite]_vars

\* statut_pro and objet_credit as _business_to_features may find them: the
\* recognized texts, a recognized text between blanks, texts that match none
\* (another case, another word, the empty text), null, a number, an array
StatutValues ==
    {JStr(STATUTS[i]) : i \in DOMAIN STATUTS}
    \cup {JStr(<<" ", "CDI", " ">>), JStr(<<"cdi">>), JStr(<<"Stagiaire">>), JStr(<<>>),
          JStr(<<"Sans", "emploi">>), JNull, JNum(I(5))}
ObjetValues ==
    {JStr(obj_map[i]) : i \in DOMAIN obj_map}
    \cup {JStr(<<" ", "Travaux", " ">>), JStr(<<"Voyage">>), JStr(<<>>), JList}

\* the money of the record the builder is given
BuilderMoney ==
    [age |-> JNum(I(30)), anciennete_pro |-> JNum(I(36)), annees_residence |-> JNum(I(3)),
     revenu_mensuel |-> JNum(I(2000)), charges_mensuelles |-> JNum(I(300)),
     montant_credit |-> JNum(I(200)), duree_credit |-> JNum(I(1))]

\* the record and the three figures predict() passes along with it; the
\* installment may be one that is not finite
InitFeatures ==
    /\ Started
    /\ NoWizard
    /\ args \in { [fn |-> "_business_to_features", b |-> Obj(BuilderMoney @@ s @@ o),
                   mensualite_credit |-> m,
                   taux_endettement_after |-> Fin(1, 4),
                   reste_a_vivre_after |-> I(1500)] :
                     s \in Optional("statut_pro", StatutValues),
                     o \in Optional("objet_credit", ObjetValues),
                     m \in {I(200), Fin(2005, 10), PInf} }
    /\ result = NoCall

BuildFeatures ==
    /\ result = NoCall
    /\ \E r \in {_business_to_features(args.b, args.mensualite_credit,
                                       args.taux_endettement_after,
                                       args.reste_a_vivre_after)} :
          result' = [fn |-> "_business_to_features", exc |-> r.exc, X |-> r.X]
    /\ Apart

NextFeatures == BuildFeatures \/ Forget

SpecFeatures == InitFeatures /\ [][NextFeatures]_vars

(***************************************************************************)
(* Concurrent handlers: each thread runs predict() on its own request, a   *)
(* step at a time, the steps of the threads interleaved.  The locals are   *)
(* the thread's; model, scaler, MODEL_TYPE and USES_SCALER are shared and  *)
(* read at the step that uses them.                                        *)
(***************************************************************************)
ThreadBodies == {Body(Forced), Body(NoExtra)}
ThreadOracles ==
    {[scaler |-> "ok", model |-> "ok", score |-> Fin(1, 5)],
     [scaler |-> "Exception", model |-> "ok", score |-> Fin(1, 5)],
     [scaler |-> "ok", model |-> "ValueError", score |-> NaN]}

\* the shared names after a step that made these calls
Shared(calls) ==
    LET after == ArtifactsAfter(Artifacts, calls)
    IN  /\ model' = after.model
        /\ scaler' = after.scaler
        /\ MODEL_TYPE' = after.MODEL_TYPE
        /\ USES_SCALER' = after.USES_SCALER
        /\ UNCHANGED <<page, session_state, clicked, request, response, invoked, kept,
                       args, result>>

\* a request reaches thread t
ThreadReceive(t) ==
    /\ threads[t].pc = "idle"
    /\ \E b \in ThreadBodies, o \in ThreadOracles :
          threads' = [threads EXCEPT ![t] = [@ EXCEPT !.pc = "parse", !.body = b,
                                                      !.oracle = o]]
    /\ Shared(<<>>)

\* lines 265-333: validation, installment, KPIs and features
ThreadParse(t) ==
    /\ threads[t].pc = "parse"
    /\ \E ready \in {BeforeScore(threads[t].body)} :
          /\ threads' = [threads EXCEPT ![t] =
                 [@ EXCEPT !.pc = IF ready.answered THEN "respond" ELSE "score",
                           !.ready = ready, !.resp = ready.resp,
                           !.calls = ready.calls]]
          /\ Shared(ready.calls)

\* line 336: _predict_risk_score reads USES_SCALER, scaler and model
ThreadScore(t) ==
    /\ threads[t].pc = "score"
    /\ \E scored \in {_predict_risk_score(Artifacts, threads[t].oracle)} :
          /\ threads' = [threads EXCEPT ![t] =
                 [@ EXCEPT !.pc = IF scored.exc # "none" THEN "respond" ELSE "payload",
                           !.score = scored.score,
                           !.resp = IF scored.exc # "none"
                                    THEN OnException(scored.exc) ELSE NoResponse,
                           !.calls = @ \o scored.calls]]
          /\ Shared(scored.calls)

\* lines 339-412: the decision and the payload, which reads MODEL_TYPE and
\* USES_SCALER
ThreadPayload(t) ==
    /\ threads[t].pc = "payload"
    /\ \E th \in {threads[t]} :
          threads' = [threads EXCEPT ![t] =
              [@ EXCEPT !.pc = "respond",
                        !.resp = jsonify(Payload(th.ready.data, Artifacts, th.ready.l,
                                                 th.score))]]
    /\ Shared(<<>>)

\* the response of thread t is sent, its locals are discarded
ThreadRespond(t) ==
    /\ threads[t].pc = "respond"
    /\ threads' = [threads EXCEPT ![t] = Idle]
    /\ Shared(<<>>)

NextThreads ==
    \E t \in Threads :
        \/ ThreadReceive(t)
        \/ ThreadParse(t)
        \/ ThreadScore(t)
        \/ ThreadPayload(t)
        \/ ThreadRespond(t)

SpecThreads == Init /\ [][NextThreads]_vars

(***************************************************************************)
(* The wizard: src/streamlit/app.py and src/frontend/streamlit_app.py.     *)
(* Streamlit runs the script from the top at every click; a step of the    *)
(* model is one click together with the run that follows st.rerun().       *)
(***************************************************************************)
Pages == {"src/streamlit/app.py", "src/frontend/streamlit_app.py"}

\* session_state.etape as the script first sets it: 0 (Accueil), resp. 1
InitialStep(p) == IF p = "src/streamlit/app.py" THEN 0 ELSE 1
LastStep == 5

\* the keys of session_state.donnees
DataKeys ==
    {"nom", "prenom", "age", "residence", "annees_residence", "statut_pro", "secteur",
     "anciennete_pro", "revenu_mensuel", "credits_encours", "charges_mensuelles",
     "montant_credit", "duree_credit", "objet_credit", "mensualite_estimee",
     "taux_annuel", "threshold", "agent_adjustment"}
\* what the applicant has entered, as against the agent's sliders
ApplicantKeys == DataKeys \ {"threshold", "agent_adjustment"}

\* donnees = {}
Cleared == [k \in DataKeys |-> Missing]

\* (variant: the fields of a step replace what the earlier steps stored)
Update_Replace(d, new) == [k \in DataKeys |-> IF k \in DOMAIN new THEN new[k] ELSE Missing]

\* donnees.update(new)
Update(d, new) == [k \in DataKeys |-> IF k \in DOMAIN new THEN new[k] ELSE d[k]]

\* the options of the select boxes of step 4, and the least principal of
\* its number input
DureeOptions == <<12, 24, 36, 48, 60, 72, 84, 96, 120, 180, 240, 300>>
ObjetOptions ==
    << <<"Achat", " ", "immobilier">>, <<"Travaux">>, <<"Vehicule">>,
       <<"Consommation">>, <<"Tresorerie">>, <<"Autre">> >>
MontantMin == 1000

\* what the widgets of each step may hold when a button is clicked
Step1Forms ==
    { [nom |-> JStr(n), prenom |-> JStr(pr), age |-> JNum(I(30)),
       residence |-> JStr(<<"Locataire">>), annees_residence |-> JNum(I(2))] :
        n \in {<<>>, <<"Dupont">>}, pr \in {<<>>, <<"Jean">>, <<" ">>} }
Step2Forms ==
    { [statut_pro |-> JStr(st), secteur |-> JStr(<<"Services">>),
       anciennete_pro |-> JNum(I(24))] : st \in {<<"CDI">>, <<"Interimaire">>} }
Step3Forms ==
    { [revenu_mensuel |-> JNum(I(r)), credits_encours |-> JNum(I(0)),
       charges_mensuelles |-> JNum(I(800))] : r \in {0, 2000} }
Step4Forms ==
    { [montant_credit |-> JNum(I(m)), duree_credit |-> JNum(I(DureeOptions[i])),
       objet_credit |-> JStr(ObjetOptions[j])] :
        m \in {MontantMin, 10000}, i \in {1, 12}, j \in {2, 4} }
NoForm == NoExtra

\* src/streamlit/app.py, lines 219-236: the sidebar stores the two sliders,
\* which show what is stored or 0.5 and 0.0
SidebarWrite(d) ==
    Update(d, [threshold |-> Get(d, "threshold", JNum(Fin(1, 2))),
               agent_adjustment |-> Get(d, "agent_adjustment", JNum(I(0)))])

\* the installment step 4 shows; its value is not followed
Estimate == [t |-> "estimate", v |-> I(0), s |-> <<>>]

\* src/streamlit/app.py, lines 438-448: step 4 stores its estimate and the rate
Step4Write(d) ==
    Update(d, [mensualite_estimee |-> Estimate,
               taux_annuel |-> Get(d, "taux_annuel", JNum(DEFAULT_TAUX_ANNUEL))])

\* what one run of the script leaves in donnees when it shows step e
Run(p, e, d) ==
    IF p = "src/streamlit/app.py"
    THEN IF e = 4 THEN Step4Write(SidebarWrite(d)) ELSE SidebarWrite(d)
    ELSE d

\* donnees.get(key): None when the key is absent
GetNone(d, key) == IF d[key].t = "missing" THEN JNull ELSE d[key]

\* appeler_api_prediction, lines 119-143: the body of POST /predict
appeler_api_prediction(d) ==
    Body([age |-> GetNone(d, "age"),
          statut_pro |-> GetNone(d, "statut_pro"),
          anciennete_pro |-> GetNone(d, "anciennete_pro"),
          revenu_mensuel |-> GetNone(d, "revenu_mensuel"),
          charges_mensuelles |-> GetNone(d, "charges_mensuelles"),
          credits_encours |-> GetNone(d, "credits_encours"),
          annees_residence |-> GetNone(d, "annees_residence"),
          montant_credit |-> GetNone(d, "montant_credit"),
          duree_credit |-> GetNone(d, "duree_credit"),
          objet_credit |-> GetNone(d, "objet_credit"),
          taux_annuel |-> Get(d, "taux_annuel", JNum(DEFAULT_TAUX_ANNUEL)),
          threshold |-> Get(d, "threshold", JNum(Fin(1, 2))),
          agent_adjustment |-> Get(d, "agent_adjustment", JNum(I(0))),
          agent_comment |-> JStr(<<>>),
          use_guardrails |-> JBool(FALSE),
          max_debt_ratio_after |-> JNum(DEFAULT_MAX_DEBT_RATIO_AFTER),
          min_reste_a_vivre_after |-> JNum(I(0)),
          debug |-> JBool(FALSE)])

etape == session_state.etape
donnees == session_state.donnees

\* a browser session opens one of the two scripts, which runs once
InitWizard ==
    /\ Started
    /\ args = NoCall
    /\ result = NoCall
    /\ page \in Pages
    /\ session_state = [etape |-> InitialStep(page),
                        donnees |-> Run(page, InitialStep(page), Cleared)]
    /\ clicked = NoClick

\* (variant: "Precedent" leads back to step 1)
Click_BackToStart(button, form, e, d) ==
    /\ clicked' = [button |-> button, form |-> Update(Cleared, form)]
    /\ session_state' = [etape |-> IF button = "Precedent" THEN 1 ELSE e,
                         donnees |-> Run(page, e, d)]
    /\ UNCHANGED <<model, scaler, MODEL_TYPE, USES_SCALER, request, response, invoked,
                   kept, threads, args, result, page>>

\* the click of a button: the script sets etape and donnees, calls
\* st.rerun(), and the next run shows step e
Click(button, form, e, d) ==
    /\ clicked' = [button |-> button, form |-> Update(Cleared, form)]
    /\ session_state' = [etape |-> e, donnees |-> Run(page, e, d)]
    /\ UNCHANGED <<model, scaler, MODEL_TYPE, USES_SCALER, request, response, invoked,
                   kept, threads, args, result, page>>

\* the sidebar button, shown at every step
Recommencer ==
    /\ page \in Pages
    /\ Click("Recommencer", NoForm, InitialStep(page), Cleared)

\* Accueil (src/streamlit/app.py only)
Commencer ==
    /\ page = "src/streamlit/app.py"
    /\ etape = 0
    /\ Click("Commencer", NoForm, 1, donnees)

\* step 1: the data are stored and step 2 is shown when nom and prenom are
\* given; otherwise an error is shown and the step stays
Suivant1 ==
    /\ etape = 1
    /\ \E form \in Step1Forms :
          IF PyBool(form.nom) /\ PyBool(form.prenom)
          THEN Click("Suivant", form, 2, Update(donnees, form))
          ELSE Click("Suivant", form, 1, donnees)

Suivant2 ==
    /\ etape = 2
    /\ \E form \in Step2Forms : Click("Suivant", form, 3, Update(donnees, form))

Suivant3 ==
    /\ etape = 3
    /\ \E form \in Step3Forms : Click("Suivant", form, 4, Update(donnees, form))

\* steps 2, 3 and 4: back one step, the widgets of the step are not stored
Precedent ==
    /\ etape \in 2..4
    /\ Click("Precedent", NoForm, etape - 1, donnees)

\* what "Lancer la Simulation" stores: the three fields of the credit, and in
\* src/frontend/streamlit_app.py (lines 440-445) the estimate as well
Stored4(p, form) ==
    IF p = "src/frontend/streamlit_app.py"
    THEN form @@ [mensualite_estimee |-> Estimate]
    ELSE form

Lancer ==
    /\ etape = 4
    /\ \E form \in Step4Forms :
          Click("Lancer", form, 5, Update(donnees, Stored4(page, form)))

\* step 5 of src/streamlit/app.py: "Retour" is shown when the call of the API
\* failed, "Modifier le credit" when it succeeded
Retour ==
    /\ page = "src/streamlit/app.py"
    /\ etape = 5
    /\ Click("Retour", NoForm, 4, donnees)

Modifier ==
    /\ page = "src/streamlit/app.py"
    /\ etape = 5
    /\ Click("Modifier", NoForm, 4, donnees)

\* step 5 of both scripts
NouvelleSimulation ==
    /\ etape = 5
    /\ Click("Nouvelle simulation", NoForm, InitialStep(page), Cleared)

\* the agent moves a slider of the sidebar (src/streamlit/app.py only)
Slide ==
    /\ page = "src/streamlit/app.py"
    /\ \E th \in {Fin(1, 2), Fin(7, 10)}, adj \in {I(0), Fin(-1, 10)} :
          /\ session_state' =
                [session_state EXCEPT
                    !.donnees = Update(@, [threshold |-> JNum(th),
                                           agent_adjustment |-> JNum(adj)])]
          /\ UNCHANGED <<model, scaler, MODEL_TYPE, USES_SCALER, request, response,
                         invoked, kept, threads, args, result, page, clicked>>

NextWizard ==
    \/ Recommencer
    \/ Commencer
    \/ Suivant1
    \/ Suivant2
    \/ Suivant3
    \/ Precedent
    \/ Lancer
    \/ Retour
    \/ Modifier
    \/ NouvelleSimulation
    \/ Slide

SpecWizard == InitWizard /\ [][NextWizard]_vars

(***************************************************************************)
(* The exchange at hand, as the properties read it                         *)
(***************************************************************************)
\* POST /predict has been handled and its response is at hand
Answered == request.route = "POST /predict" /\ response # NoResponse
IsObject == request.body.kind = "object"
Data == request.body.f
Has(key) == key \in DOMAIN response.body

\* the fields of the request as the sanitizers read them
ReqFloat(key, default) == _to_float(Get(Data, key, JNum(default)), default)
ReqIncome == ReqFloat("revenu_mensuel", I(0))
ReqMontant == ReqFloat("montant_credit", I(0))
ReqDuree == _to_int(Get(Data, "duree_credit", JNum(I(0))), 0)
ReqObjet == Strip(PyStr(Get(Data, "objet_credit", JStr(<<>>))))
ReqThreshold == ReqFloat("threshold", DEFAULT_THRESHOLD)
ReqGuardrails == PyBool(Get(Data, "use_guardrails", JBool(FALSE)))
ReqMaxDebt == ReqFloat("max_debt_ratio_after", DEFAULT_MAX_DEBT_RATIO_AFTER)
ReqMinReste == ReqFloat("min_reste_a_vivre_after", DEFAULT_MIN_RESTE_A_VIVRE_AFTER)

IncomePositive == IsObject /\ FGt(ReqIncome, I(0))
CreditMalformed == FLe(ReqMontant, I(0)) \/ ReqDuree <= 0 \/ ReqObjet = <<>>
CreditValid == ~CreditMalformed
ThresholdInRange == FLe(I(0), ReqThreshold) /\ FLe(ReqThreshold, I(1))

\* a 200 response built by the whole pipeline (not the automatic refusal)
FullResponse == Answered /\ response.status = 200 /\ Has("credit")
Kpis == response.body.kpis
RuleAccepts ==
    FGe(Kpis.reste_a_vivre_after, I(800)) /\ FLe(Kpis.taux_endettement_after, Fin(35, 100))

\* the earlier exchange, when one is remembered
KeptAnswered == kept.request.route = "POST /predict"
KeptData == kept.request.body.f
KeptHas(key) == key \in DOMAIN kept.response.body
\* the clamp of an ordered value
Clamped(x, lo, hi) == IF FLt(x, lo) THEN lo ELSE IF FGt(x, hi) THEN hi ELSE x

ScoreFields == {"threshold", "agent_adjustment", "agent_comment"}
AgreeButScore == \A f \in Fields \ ScoreFields : KeptData[f] = Data[f]
KeptThresholdInRange ==
    LET t == _to_float(Get(KeptData, "threshold", JNum(DEFAULT_THRESHOLD)),
                       DEFAULT_THRESHOLD)
    IN  FLe(I(0), t) /\ FLe(t, I(1))

C2_Pair ==
    /\ Answered /\ KeptAnswered
    /\ IsObject /\ kept.request.body.kind = "object"
    /\ AgreeButScore
    /\ ThresholdInRange /\ KeptThresholdInRange
    /\ ~Raises(invoked) /\ ~Raises(kept.invoked)

C3_FastReject ==
    (Answered /\ IsObject /\ FLe(ReqIncome, I(0)))
    => /\ response.status = 200
       /\ Has("decision") /\ response.body.decision = 0
       /\ Has("risk_score_model") /\ response.body.risk_score_model = I(1)
       /\ Has("risk_score_adjusted") /\ response.body.risk_score_adjusted = I(1)
       /\ Has("reason") /\ response.body.reason = "Revenu mensuel nul ou inexistant"
       /\ invoked = <<>>

\* an unparsable income with malformed credit fields and a threshold of 1.5
C3_Witness ==
    /\ Answered /\ IsObject
    /\ Data["revenu_mensuel"] = JStr(<<"abc">>)
    /\ CreditMalformed /\ ~ThresholdInRange
    /\ response.status = 200 /\ response.body.decision = 0

(***************************************************************************)
(* C4  Malformed credit: for a request with income > 0 whose montant_credit*)
(* parses to <= 0, or whose duree_credit parses to <= 0, or whose          *)
(* objet_credit is empty after trimming, the response is 400 with an error *)
(* and the `required` list of the three credit fields, carries no decision,*)
(* and nothing of the pipeline is called.                                  *)
(***************************************************************************)
C4_MalformedCredit ==
    (Answered /\ IncomePositive /\ CreditMalformed)
    => /\ response.status = 400
       /\ Has("error") /\ Has("required")
       /\ response.body.required =
             <<"montant_credit (>0)", "duree_credit (>0)", "objet_credit (non vide)">>
       /\ ~Has("decision")
       /\ invoked = <<>>

\* a valid principal and purpose with a term that truncates to 0
C4_Witness ==
    /\ Answered /\ IncomePositive
    /\ FGt(ReqMontant, I(0)) /\ ReqObjet # <<>>
    /\ Data["duree_credit"] = JNum(Fin(1, 2))
    /\ response.status = 400

(***************************************************************************)
(* C5  Guardrail override: with use_guardrails enabled, when               *)
(* taux_endettement_after > max_debt_ratio_after or reste_a_vivre_after <  *)
(* min_reste_a_vivre_after the decision is 0 whatever the primary rule     *)
(* decided, guardrails.forced_refusal is true, and guardrails.reasons holds*)
(* one reason per violated guardrail, the debt ratio first.                *)
(***************************************************************************)
DebtViolated == FGt(Kpis.taux_endettement_after, ReqMaxDebt)
ResteViolated == FLt(Kpis.reste_a_vivre_after, ReqMinReste)
ExpectedReasons ==
    (IF DebtViolated THEN <<"Taux d'endettement apres credit >">> ELSE <<>>)
    \o (IF ResteViolated THEN <<"Reste a vivre apres credit <">> ELSE <<>>)

C5_GuardrailOverride ==
    (FullResponse /\ ReqGuardrails /\ (DebtViolated \/ ResteViolated))
    => /\ response.body.decision = 0
       /\ Has("guardrails")
       /\ response.body.guardrails.forced_refusal = TRUE
       /\ [i \in DOMAIN response.body.guardrails.reasons |->
              response.body.guardrails.reasons[i].text] = ExpectedReasons

\* the primary rule accepts and both guardrails are violated
C5_Witness ==
    /\ FullResponse /\ ReqGuardrails
    /\ RuleAccepts /\ DebtViolated /\ ResteViolated
    /\ response.body.decision = 0

(***************************************************************************)
(* C6  Agent-adjustment clamp: in every full-pipeline 200 response the     *)
(* echoed agent_adjustment is the supplied value clamped to [-0.30, +0.30] *)
(* (0 when missing or unparsable) and risk_score_adjusted =                *)
(* clamp(risk_score_model + agent_adjustment, 0, 1); so for a model score  *)
(* in [0,1] the adjusted score is in [0,1] and at most 0.30 away from it.  *)
(* (A nan, supplied or scored, has no clamp: the echo is then still within *)
(* the range, and the equality is stated for the scores that are numbers.) *)
(***************************************************************************)
SuppliedAdjustment == Get(Data, "agent_adjustment", JNum(I(0)))

C6_AdjustmentClamp ==
    FullResponse =>
        LET supplied == _to_float(SuppliedAdjustment, I(0))
            echo == response.body.agent_adjustment
            m == response.body.risk_score_model
            a == response.body.risk_score_adjusted
        IN  /\ ~IsNaN(supplied) => echo = Clamped(supplied, Fin(-30, 100), Fin(30, 100))
            /\ ~PyFloat(SuppliedAdjustment)[1] => echo = I(0)
            /\ FLe(Fin(-30, 100), echo) /\ FLe(echo, Fin(30, 100))
            /\ ~IsNaN(m) => a = Clamped(FAdd(m, echo), I(0), I(1))
            /\ (FLe(I(0), m) /\ FLe(m, I(1)))
               => /\ FLe(I(0), a) /\ FLe(a, I(1))
                  /\ FLe(FSub(a, m), Fin(30, 100))
                  /\ FLe(FSub(m, a), Fin(30, 100))

\* an adjustment of 5.0 is applied as 0.30 to a score of 0.9
C6_Witness ==
    /\ FullResponse
    /\ Data["agent_adjustment"] = JNum(I(5))
    /\ response.body.agent_adjustment = Fin(30, 100)
    /\ response.body.risk_score_model = Fin(9, 10)
    /\ response.body.risk_score_adjusted = I(1)

(***************************************************************************)
(* C7  Out-of-range threshold: every POST /predict request whose threshold *)
(* parses to a number outside [0,1] is answered with HTTP 400, so that no  *)
(* 200 response carries a threshold outside [0,1].                         *)
(* The handler refuses a request without income before it looks at the     *)
(* threshold, and echoes the threshold it was given.                       *)
(***************************************************************************)
ThresholdOutside == FLt(ReqThreshold, I(0)) \/ FGt(ReqThreshold, I(1))

C7_ThresholdRejected ==
    /\ (Answered /\ IsObject /\ ThresholdOutside) => response.status = 400
    /\ (Answered /\ response.status = 200 /\ Has("threshold"))
       => ~(FLt(response.body.threshold, I(0)) \/ FGt(response.body.threshold, I(1)))

(***************************************************************************)
(* C8  Business rejections are never errors: every response of POST        *)
(* /predict that carries a decision has status 200, and every 400 or 500   *)
(* response carries an error and no decision.                              *)
(***************************************************************************)
C8_DecisionsAre200 ==
    Answered =>
        /\ Has("decision") => response.status = 200
        /\ response.status \in {400, 500} => (Has("error") /\ ~Has("decision"))
        /\ response.status \in {200, 400, 500}

\* the model raised after the feature vector was built: a 500 with an error
C8_Witness ==
    /\ Answered /\ IncomePositive /\ CreditValid
    /\ Raises(invoked)
    /\ response.status = 500 /\ Has("error") /\ ~Has("decision")

(***************************************************************************)
(* C9  Reasons on rejection: every 200 response of POST /predict with      *)
(* decision = 0 carries a reason field or a non-empty list of reasons.     *)
(* A refusal by the primary rule carries neither.                          *)
(***************************************************************************)
C9_ReasonOnRejection ==
    (Answered /\ response.status = 200 /\ Has("decision") /\ response.body.decision = 0)
    => \/ Has("reason")
       \/ Has("guardrails") /\ response.body.guardrails.reasons # <<>>

(***************************************************************************)
(* C10  Idempotence, no hidden state: the same POST /predict request,      *)
(* handled again after any other requests with a model and a scaler that   *)
(* answer as they did before, gets the same status and body and makes the  *)
(* same calls; and no step changes the loaded artifacts a later request    *)
(* reads.  (Checked under SpecPair.)                                       *)
(***************************************************************************)
\* a deterministic model and scaler: a call made in both exchanges ended alike
SameAnswers ==
    \A i \in DOMAIN invoked, j \in DOMAIN kept.invoked :
        invoked[i].fn = kept.invoked[j].fn => invoked[i] = kept.invoked[j]

C10_Again == Answered /\ KeptAnswered /\ kept.request = request /\ SameAnswers

C10_Idempotent ==
    /\ C10_Again => (response = kept.response /\ invoked = kept.invoked)
    /\ Artifacts = [model |-> model, scaler |-> scaler, MODEL_TYPE |-> model.type,
                    USES_SCALER |-> (scaler # "None")]

\* a request answered again through the whole pipeline: installment,
\* features, scaler and model were called both times
C10_Witness ==
    /\ C10_Again
    /\ FullResponse
    /\ Len(invoked) = 4 /\ Len(kept.invoked) = 4
    /\ scaler # "None"

(***************************************************************************)
(* C11  Concurrency safety: when several POST /predict requests are handled*)
(* concurrently, their steps interleaved, each response (and the calls     *)
(* made for it) is the one the same request gets when handled alone; the   *)
(* shared names model, scaler, MODEL_TYPE and USES_SCALER keep the values  *)
(* they got at start-up.  (Checked under SpecThreads.)                     *)
(***************************************************************************)
Loaded ==
    [model |-> model, scaler |-> scaler, MODEL_TYPE |-> model.type,
     USES_SCALER |-> (scaler # "None")]

C11_ConcurrencySafe ==
    /\ Artifacts = Loaded
    /\ \A t \in Threads :
          threads[t].pc = "respond" =>
              \E alone \in {predict(threads[t].body, Loaded, threads[t].oracle)} :
                  /\ threads[t].resp = alone.resp
                  /\ threads[t].calls = alone.calls

\* one handler has built a full response while another, whose scaler call
\* failed, has its error ready, and both are still in flight
C11_Witness ==
    \E t, u \in Threads :
        /\ t # u
        /\ threads[t].pc = "respond" /\ threads[t].resp.status = 200
        /\ "credit" \in DOMAIN threads[t].resp.body
        /\ threads[u].pc = "respond" /\ threads[u].resp.status = 500
        /\ Raises(threads[u].calls)

(***************************************************************************)
(* C12  Feature finiteness gate: scaler.transform and model.predict_proba  *)
(* are only called for a request whose vector has exactly 200 elements,    *)
(* all finite; when a computed feature is nan or infinite, POST /predict   *)
(* answers 400 with an error and calls neither the scaler nor the model.   *)
(***************************************************************************)
ScorerCalled ==
    \E i \in DOMAIN invoked : invoked[i].fn \in {"scaler.transform", "model.predict_proba"}
\* the request passes the validations of lines 274-301, so that the
\* installment and the features are computed
Computed == IsObject /\ ~FLe(ReqIncome, I(0)) /\ CreditValid /\ ThresholdInRange
Finite(X) == \A i \in DOMAIN X : X[i].k \notin {"nan", "inf"}

C12_FinitenessGate ==
    Answered =>
        /\ ~Computed => ~ScorerCalled
        /\ Computed =>
              \E l \in {Locals(Data, ReqIncome, ReqMontant, ReqDuree, ReqObjet,
                               ReqThreshold)} :
                  /\ l.raised # "none" => ~ScorerCalled
                  /\ l.raised = "none" =>
                        /\ Cardinality(DOMAIN l.built.X) = 200
                        /\ ScorerCalled => Finite(l.built.X)
                        /\ ~Finite(l.built.X) =>
                              /\ response.status = 400 /\ Has("error")
                              /\ ~ScorerCalled

\* an income of "nan" passes "revenu <= 0" and the feature builder raises
C12_Witness ==
    /\ Answered /\ Computed
    /\ Data["revenu_mensuel"] = JStr(<<"nan">>)
    /\ Len(invoked) = 2 /\ invoked[2] = Call("_business_to_features", "ValueError", I(0))
    /\ response.status = 400

(***************************************************************************)
(* C13  Artifact failures are server errors: when the model has no         *)
(* predict_proba, or the call of the scaler or of the model raises         *)
(* whatever exception, POST /predict answers 500, never 400 and never with *)
(* a decision.                                                             *)
(* A ValueError raised by scaler.transform or model.predict_proba is       *)
(* caught by the clause meant for the feature builder and answered 400.    *)
(***************************************************************************)
\* the handler got as far as _predict_risk_score
ScorerReached ==
    Len(invoked) >= 2 /\ invoked[2] = Call("_business_to_features", "ok", I(0))
ArtifactFailed ==
    \/ \E i \in DOMAIN invoked :
          /\ invoked[i].fn \in {"scaler.transform", "model.predict_proba"}
          /\ invoked[i].out # "ok"
    \/ ScorerReached /\ ~model.predict_proba /\ ~Raises(invoked)

C13_ArtifactFailuresAre500 ==
    (Answered /\ ArtifactFailed) => (response.status = 500 /\ ~Has("decision"))

(***************************************************************************)
(* C14  Sanitizer totality: for a value that cannot be converted (null, a  *)
(* text that is not a numeral, an array or an object) _to_float and        *)
(* _to_int return the supplied default; for a convertible value they       *)
(* return the converted number (int() truncates toward zero); they return  *)
(* a number for every input.  (Checked under SpecSanitize.)                *)
(***************************************************************************)
\* the texts of the model that are numerals once trimmed
FloatNumerals == {<<"1500">>, <<"12.5">>, <<"nan">>, <<"inf">>}
IntNumerals == {<<"1500">>}
Trimmed(s) == SelectSeq(s, LAMBDA c : c # " ")
NoNumber(x, numerals) ==
    \/ x.t \in {"null", "list"}
    \/ x.t = "str" /\ Trimmed(x.s) \notin numerals

C14_SanitizerTotality ==
    /\ result.fn = "_to_float" =>
          /\ result.f.k \in {"fin", "nan", "inf"}
          /\ NoNumber(args.x, FloatNumerals) => result.f = args.fdefault
          /\ args.x.t \in {"num", "bool"} => result.f = args.x.v
          /\ (args.x.t = "str" /\ Trimmed(args.x.s) = <<"1500">>) => result.f = I(1500)
          /\ (args.x.t = "str" /\ Trimmed(args.x.s) = <<"12.5">>) => result.f = Fin(25, 2)
    /\ result.fn = "_to_int" =>
          /\ result.i \in Int
          /\ NoNumber(args.x, IntNumerals) => result.i = args.idefault
          /\ (args.x.t = "num" /\ args.x.v.k # "fin") => result.i = args.idefault
          /\ (args.x.t \in {"num", "bool"} /\ args.x.v.k = "fin") =>
                /\ Sign(args.x.v) * result.i >= 0
                /\ FLe(I(Abs(result.i)), Fin(Abs(args.x.v.n), args.x.v.d))
                /\ FLt(Fin(Abs(args.x.v.n), args.x.v.d), I(Abs(result.i) + 1))
          /\ (args.x.t = "str" /\ Trimmed(args.x.s) = <<"1500">>) => result.i = 1500

\* an array is given and the default 0.5 comes back
C14_Witness ==
    /\ result.fn = "_to_float"
    /\ args.x = JList /\ args.fdefault = Fin(1, 2)
    /\ result.f = Fin(1, 2)

(***************************************************************************)
(* C15  Installment edge cases: _calc_mensualite floors its inputs         *)
(* (principal to >= 0, term to >= 1, rate to >= 0); when the floored rate  *)
(* is 0 it returns exactly principal / term (12000 over 12 months gives    *)
(* 1000); for every input it never divides by zero and never raises.       *)
(* (Checked under SpecMensualite.)  With a rate of 1e-17 the divisor       *)
(* (1 + taux_mensuel) ** n - 1 is 0.0 and the division raises; with a rate *)
(* of 1e308 the power overflows.                                           *)
(***************************************************************************)
Called == result.fn = "_calc_mensualite"
FlooredPrincipal == IF FGt(args.montant, I(0)) THEN args.montant ELSE I(0)
FlooredTerm == IF args.duree_mois > 1 THEN args.duree_mois ELSE 1
FlooredRateIsZero == ~FGt(args.taux_annuel, I(0))

C15_InstallmentEdgeCases ==
    Called =>
        /\ result.exc = "none"
        /\ FlooredRateIsZero => result.v = FDiv(FlooredPrincipal, I(FlooredTerm))
        /\ (args.montant = I(12000) /\ args.duree_mois = 12 /\ args.taux_annuel = I(0))
           => result.v = I(1000)

(***************************************************************************)
(* C16  Installment monotonicity in principal: for every fixed term and    *)
(* rate and every two principals p1 < p2,                                  *)
(* _calc_mensualite(p1, term, rate) < _calc_mensualite(p2, term, rate).    *)
(* As stated it fails below 0, where both principals are floored to 0.     *)
(* It holds for 0 <= p1 < p2 with a rational rate.                         *)
(* (Checked under SpecMensualite.)                                         *)
(***************************************************************************)
\* the installment of another principal at the same term and rate
WithPrincipal(p) == _calc_mensualite(p, args.duree_mois, args.taux_annuel)

WithTerm(n) == _calc_mensualite(args.montant, n, args.taux_annuel)

Built18 == result.fn = "_business_to_features"
StatutSlots == 6..12
ObjetSlots == 22..27
StatutText == Strip(PyStr(Get(args.b, "statut_pro", JStr(<<>>))))
ObjetText == Strip(PyStr(Get(args.b, "objet_credit", JStr(<<>>))))
Recognized(text, names) == \E k \in DOMAIN names : names[k] = text
Ones(slots) == {i \in slots : result.X[i] = I(1)}
Zeros(slots) == {i \in slots : result.X[i] = I(0)}

C18_OneHotExclusivity ==
    Built18 =>
        /\ Ones(StatutSlots) \cup Zeros(StatutSlots) = StatutSlots
        /\ Ones(ObjetSlots) \cup Zeros(ObjetSlots) = ObjetSlots
        /\ Cardinality(Ones(StatutSlots))
              = IF Recognized(StatutText, STATUTS) THEN 1 ELSE 0
        /\ Cardinality(Ones(ObjetSlots))
              = IF Recognized(ObjetText, obj_map) THEN 1 ELSE 0
        /\ \A k \in DOMAIN STATUTS : StatutText = STATUTS[k] => result.X[5 + k] = I(1)
        /\ \A k \in DOMAIN obj_map : ObjetText = obj_map[k] => result.X[21 + k] = I(1)
        \* the builder raises for a slot that is not finite only, never for
        \* the text of the status or of the purpose
        /\ result.exc # "none" =>
              \E i \in DOMAIN result.X \ (StatutSlots \cup ObjetSlots) :
                  ~IsFin(result.X[i])

\* " CDI " is recognized once trimmed, "Voyage" is no purpose: slot 6 alone
\* is 1.0 and the vector is returned
C18_Witness ==
    /\ Built18
    /\ args.b["statut_pro"] = JStr(<<" ", "CDI", " ">>)
    /\ args.b["objet_credit"] = JStr(<<"Voyage">>)
    /\ result.exc = "none"
    /\ Ones(StatutSlots) = {6}
    /\ Ones(ObjetSlots) = {}

(***************************************************************************)
(* C19  Filler distinctness: in every vector built by                      *)
(* _business_to_features, the filler slots 28..199, each equal to          *)
(* base_mix + (i mod 7) * 0.03 - (i mod 5) * 0.02, hold pairwise distinct  *)
(* values.  As stated it fails: (i mod 7, i mod 5) comes back every 35     *)
(* slots, so slots 28 and 63 hold the same value.  What holds: slots 35    *)
(* apart are equal, and two filler slots differ by the difference of       *)
(* their perturbations.  (Checked under SpecFeatures.)                     *)
(***************************************************************************)
FillerSlots == 28..(N_FEATURES - 1)
Returned19 == Built18 /\ result.exc = "none"
Same(x, y) == ~FLt(x, y) /\ ~FLt(y, x)
\* (i % 7) * 0.03 - (i % 5) * 0.02
Perturbation(i) == Fin(3 * (i % 7) - 2 * (i % 5), 100)

C19_FillersDistinct_AsStated ==
    Returned19 =>
        \A i, j \in FillerSlots : i # j => ~Same(result.X[i], result.X[j])

C19_FillersRepeat ==
    Returned19 =>
        /\ \A i \in FillerSlots :
              (i + 35) \in FillerSlots => Same(result.X[i], result.X[i + 35])
        /\ \A i \in FillerSlots :
              Same(FSub(result.X[i], result.X[28]),
                   FSub(Perturbation(i), Perturbation(28)))

\* slots 28 and 63 hold the same value, slot 29 another one
C19_Witness ==
    /\ Returned19
    /\ args.b["statut_pro"] = JStr(<<"CDI">>)
    /\ args.mensualite_credit = I(200)
    /\ Same(result.X[28], result.X[63])
    /\ ~Same(result.X[28], result.X[29])

(***************************************************************************)
(* C20  Debt-ratio definition: in every 200 response of the whole pipeline *)
(* (income > 0), kpis.taux_endettement_after equals (charges + existing    *)
(* loans + new installment) / income and kpis.taux_endettement_before      *)
(* equals (charges + existing loans) / income.  As stated it fails for an  *)
(* income between 0 and 1: the denominator is max(income, 1.0).            *)
(***************************************************************************)
ReqCharges == ReqFloat("charges_mensuelles", I(0))
ReqCredits == ReqFloat("credits_encours", I(0))
Burden == FAdd(ReqCharges, ReqCredits)
BurdenAfter == FAdd(Burden, response.body.credit.mensualite_estimee)

C20_DebtRatioOverIncome_AsStated ==
    (FullResponse /\ FGt(ReqIncome, I(0))) =>
        /\ Same(Kpis.taux_endettement_after, FDiv(BurdenAfter, ReqIncome))
        /\ Same(Kpis.taux_endettement_before, FDiv(Burden, ReqIncome))

C20_DebtRatio ==
    FullResponse =>
        /\ FGt(ReqIncome, I(0))
        /\ IsFin(Kpis.taux_endettement_after) /\ IsFin(Kpis.taux_endettement_before)
        /\ Same(Kpis.taux_endettement_after, FDiv(BurdenAfter, PyMax(ReqIncome, I(1))))
        /\ Same(Kpis.taux_endettement_before, FDiv(Burden, PyMax(ReqIncome, I(1))))
        /\ FGe(ReqIncome, I(1)) =>
              /\ Same(Kpis.taux_endettement_after, FDiv(BurdenAfter, ReqIncome))
              /\ Same(Kpis.taux_endettement_before, FDiv(Burden, ReqIncome))

\* an income of 0.5 and charges of 300: the ratio before the credit is 300,
\* not 600
C20_Witness ==
    /\ FullResponse
    /\ ReqIncome = Fin(1, 2) /\ ReqCharges = I(300)
    /\ Kpis.taux_endettement_before = I(300)
    /\ FGt(Kpis.taux_endettement_after, I(500))

(***************************************************************************)
(* C21  Before/after KPI relation: in every 200 response of the whole      *)
(* pipeline, reste_a_vivre_after = reste_a_vivre_before - mensualite_      *)
(* estimee and taux_endettement_after = taux_endettement_before +          *)
(* mensualite_estimee / max(income, 1); the installment is >= 0, so        *)
(* reste_a_vivre_after <= reste_a_vivre_before and taux_endettement_after  *)
(* >= taux_endettement_before.  (The equalities are those of the exact     *)
(* values; the rounding of the two divisions is not modelled.)             *)
(***************************************************************************)
Installment == response.body.credit.mensualite_estimee

C21_BeforeAfter ==
    FullResponse =>
        /\ IsFin(Installment) /\ FGe(Installment, I(0))
        /\ Same(Kpis.reste_a_vivre_after, FSub(Kpis.reste_a_vivre_before, Installment))
        /\ Same(Kpis.taux_endettement_after,
                FAdd(Kpis.taux_endettement_before,
                     FDiv(Installment, PyMax(ReqIncome, I(1)))))
        /\ FLe(Kpis.reste_a_vivre_after, Kpis.reste_a_vivre_before)
        /\ FGe(Kpis.taux_endettement_after, Kpis.taux_endettement_before)

\* 2000 of income, 300 of charges, 200 over one month at 3.5 %: the credit
\* takes the residual income from 1700 to below 1500
C21_Witness ==
    /\ FullResponse
    /\ ReqIncome = I(2000) /\ ReqCharges = I(300) /\ ReqCredits = I(0)
    /\ Kpis.reste_a_vivre_before = I(1700)
    /\ FGt(Installment, I(200))
    /\ FLt(Kpis.reste_a_vivre_after, I(1500))
    /\ FGt(Kpis.taux_endettement_after, Kpis.taux_endettement_before)

(***************************************************************************)
(* C22  Guardrail diagnostics consistency: a 200 response of the whole     *)
(* pipeline holds a guardrails block if and only if use_guardrails was     *)
(* enabled; in it forced_refusal is true if and only if reasons is not     *)
(* empty; when guardrails are disabled or none is violated the decision is *)
(* the outcome of the primary rule, so guardrails can turn an accept into  *)
(* a reject but never a reject into an accept.                             *)
(* (Enabled is what bool() makes of the field: the text "false" enables.)  *)
(***************************************************************************)
PrimaryOutcome == IF RuleAccepts THEN 1 ELSE 0
NoneViolated == ~DebtViolated /\ ~ResteViolated

C22_GuardrailDiagnostics ==
    FullResponse =>
        /\ Has("guardrails") <=> ReqGuardrails
        /\ Has("guardrails") =>
              /\ response.body.guardrails.enabled = TRUE
              /\ response.body.guardrails.forced_refusal
                    <=> (response.body.guardrails.reasons # <<>>)
              /\ (response.body.guardrails.reasons = <<>>) <=> NoneViolated
        /\ (~ReqGuardrails \/ NoneViolated) => response.body.decision = PrimaryOutcome
        /\ response.body.decision <= PrimaryOutcome

\* guardrails are enabled, none is violated, and the refusal of the primary
\* rule stands
C22_Witness ==
    /\ FullResponse /\ ReqGuardrails /\ NoneViolated
    /\ Has("guardrails")
    /\ response.body.guardrails.forced_refusal = FALSE
    /\ ~RuleAccepts
    /\ response.body.decision = 0

(***************************************************************************)
(* C23  Malformed bodies are 400: every POST /predict request whose body   *)
(* is absent, is not JSON, or is JSON that is not an object (an array, a   *)
(* number, a text) is answered 400 and never 500.  An absent or unreadable *)
(* body is answered 400; a body that is not an object has no get(), the    *)
(* AttributeError is caught at lines 414-415 and the answer is 500.        *)
(***************************************************************************)
C23_MalformedBodiesAre400 ==
    (Answered /\ ~IsObject) => response.status = 400

(***************************************************************************)
(* C24  Single terminal outcome: every invocation of the /predict handler, *)
(* for any body and any outcome (return or exception) of the scaler and    *)
(* model calls, ends with exactly one response whose status is 200, 400 or *)
(* 500; no exception escapes the handler, and the model is invoked at most *)
(* once per request.  (Checked under SpecOutcome.  The handler is          *)
(* straight-line code taken in one step: that it ends is stated as the     *)
(* handler having a response for the pending request, whatever the scaler  *)
(* and the model do.)                                                      *)
(***************************************************************************)
Pending == request.route = "POST /predict" /\ response = NoResponse
CallsOf(fn) == {i \in DOMAIN invoked : invoked[i].fn = fn}
Terminal(resp) == resp.status \in {200, 400, 500}

\* what has been answered is a terminal response, made with at most one call
\* of the scaler and of the model; a call that raised is the last one made
C24_Outcome ==
    Answered =>
        /\ Terminal(response)
        /\ Cardinality(CallsOf("model.predict_proba")) <= 1
        /\ Cardinality(CallsOf("scaler.transform")) <= 1
        /\ \A i \in DOMAIN invoked : invoked[i].out # "ok" => i = Len(invoked)

\* a pending request has its response, whatever the artifacts do
C24_Ends ==
    Pending =>
        \E ready \in {BeforeScore(request.body)} :
            \A oracle \in Oracles : Terminal(AfterScore(ready, Artifacts, oracle).resp)

\* the handler's step answers, and the response, once made, is the one sent
C24_OneResponse ==
    /\ (Pending /\ response' # response) => (Terminal(response') /\ request' = request)
    /\ Answered => (response' = response \/ (response' = NoResponse /\ request' = NoRequest))

C24_SingleTerminalOutcome ==
    /\ []C24_Outcome
    /\ []C24_Ends
    /\ [][C24_OneResponse]_vars

\* the installment raised ZeroDivisionError, the answer is 500 and the model
\* was not called
C24_Witness ==
    /\ Answered
    /\ invoked # <<>> /\ invoked[Len(invoked)].out = "ZeroDivisionError"
    /\ response.status = 500
    /\ CallsOf("model.predict_proba") = {}

(***************************************************************************)
(* C25  Default guardrails are subsumed by the primary rule: when          *)
(* use_guardrails is enabled with the default parameters (0.45 and 0), and *)
(* more generally whenever max_debt_ratio_after >= 0.35 and                *)
(* min_reste_a_vivre_after <= 800, the final decision is the one made with *)
(* guardrails disabled, that of the primary rule; forced_refusal is then   *)
(* true only on requests the primary rule already rejects.                 *)
(***************************************************************************)
Subsumed == FGe(ReqMaxDebt, MAX_TAUX_ENDETTEMENT) /\ FLe(ReqMinReste, MIN_RESTE_A_VIVRE)
DefaultGuardrails ==
    /\ ReqMaxDebt = DEFAULT_MAX_DEBT_RATIO_AFTER
    /\ ReqMinReste = DEFAULT_MIN_RESTE_A_VIVRE_AFTER

C25_GuardrailsSubsumed ==
    /\ DefaultGuardrails => Subsumed
    /\ (FullResponse /\ ReqGuardrails /\ Subsumed) =>
          /\ response.body.decision = PrimaryOutcome
          /\ response.body.guardrails.forced_refusal => ~RuleAccepts
          /\ RuleAccepts => response.body.guardrails.reasons = <<>>

\* the limits of the guardrails are those of the primary rule, the residual
\* income is exactly 800, and the request is accepted
C25_Witness ==
    /\ FullResponse /\ ReqGuardrails /\ Subsumed
    /\ ReqMinReste = I(800) /\ ReqMaxDebt = Fin(35, 100)
    /\ Kpis.reste_a_vivre_after = I(800)
    /\ response.body.guardrails.forced_refusal = FALSE
    /\ response.body.decision = 1

(***************************************************************************)
(* C26  Wizard completeness at submission (src/streamlit/app.py): after    *)
(* any sequence of Start / Next / Previous / Launch / Modify / Reset       *)
(* clicks, whenever etape = 5 (the only step that calls POST /predict) the *)
(* session data hold a non-empty nom and prenom, age, statut_pro,          *)
(* anciennete_pro, revenu_mensuel, charges_mensuelles, credits_encours, a  *)
(* montant_credit >= 1000, a duree_credit of the offered list and a        *)
(* non-empty objet_credit of the six purposes, so the request of the       *)
(* wizard never meets the 400 of the credit fields.                        *)
(* (Checked under SpecWizard.)                                             *)
(***************************************************************************)
Submitting == page = "src/streamlit/app.py" /\ etape = LastStep
Given(key) == donnees[key].t # "missing"
NonEmptyText(key) == donnees[key].t = "str" /\ donnees[key].s # <<>>
Sent == appeler_api_prediction(donnees).f
SentCreditInvalid ==
    CreditInvalid(_to_float(Get(Sent, "montant_credit", JNum(I(0))), I(0)),
                  _to_int(Get(Sent, "duree_credit", JNum(I(0))), 0),
                  Strip(PyStr(Get(Sent, "objet_credit", JStr(<<>>)))))

C26_WizardComplete ==
    Submitting =>
        /\ NonEmptyText("nom") /\ NonEmptyText("prenom")
        /\ \A key \in {"age", "statut_pro", "anciennete_pro", "revenu_mensuel",
                       "charges_mensuelles", "credits_encours"} : Given(key)
        /\ donnees["montant_credit"].t = "num"
        /\ FGe(donnees["montant_credit"].v, I(MontantMin))
        /\ \E i \in DOMAIN DureeOptions :
              donnees["duree_credit"] = JNum(I(DureeOptions[i]))
        /\ NonEmptyText("objet_credit")
        /\ \E j \in DOMAIN ObjetOptions : donnees["objet_credit"].s = ObjetOptions[j]
        /\ ~SentCreditInvalid

\* the simulation is launched with the least principal over the longest term
C26_Witness ==
    /\ Submitting
    /\ clicked.button = "Lancer"
    /\ donnees["montant_credit"] = JNum(I(1000))
    /\ donnees["duree_credit"] = JNum(I(300))
    /\ donnees["statut_pro"] = JStr(<<"Interimaire">>)
    /\ ~SentCreditInvalid

(***************************************************************************)
(* C27  Wizard navigation (src/streamlit/app.py and                        *)
(* src/frontend/streamlit_app.py): etape always stays within its range     *)
(* (0..5, resp. 1..5); every click changes it by exactly +1 (Start, Next,  *)
(* Launch), exactly -1 (Previous, Back, Modify) or resets it to the        *)
(* initial step; step 1 advances to step 2 only when nom and prenom are    *)
(* both non-empty (a Next click without them shows an error and leaves the *)
(* step and the data as they are); from every step a Reset click is        *)
(* enabled and leads to the initial step with all applicant data cleared.  *)
(* (Checked under SpecWizard.)                                             *)
(***************************************************************************)
C27_Range == etape \in InitialStep(page)..LastStep

NamesGiven(form) == form["nom"].s # <<>> /\ form["prenom"].s # <<>>
ApplicantCleared(d) == \A key \in ApplicantKeys : d[key].t = "missing"

C27_Click ==
    LET button == clicked'.button
        before == etape
        after == session_state'.etape
    IN  /\ \/ \* a slider of the sidebar is moved: no button is clicked
              /\ clicked' = clicked /\ after = before
              /\ \A key \in ApplicantKeys : session_state'.donnees[key] = donnees[key]
           \/ button \in {"Commencer", "Suivant", "Lancer"} /\ after = before + 1
           \/ \* Next is refused at step 1
              /\ button = "Suivant" /\ before = 1 /\ after = 1
              /\ ~NamesGiven(clicked'.form)
              /\ session_state'.donnees = donnees
           \/ button \in {"Precedent", "Retour", "Modifier"} /\ after = before - 1
           \/ /\ button \in {"Recommencer", "Nouvelle simulation"}
              /\ after = InitialStep(page)
              /\ ApplicantCleared(session_state'.donnees)
        /\ (before = 1 /\ after = 2) =>
              /\ NamesGiven(clicked'.form)
              /\ session_state'.donnees["nom"] = clicked'.form["nom"]
              /\ session_state'.donnees["prenom"] = clicked'.form["prenom"]

C27_WizardNavigation ==
    /\ []C27_Range
    /\ [](ENABLED Recommencer)
    /\ [][C27_Click]_vars

\* Next has been clicked at step 1 without a name: the step stays, nothing
\* is stored
C27_Witness ==
    /\ etape = 1
    /\ clicked.button = "Suivant"
    /\ clicked.form["nom"] = JStr(<<>>)
    /\ donnees["nom"].t = "missing"

=============================================================================
